---- MODULE Spec2Model ----
(***************************************************************************)
(* Model of the keyspace engine of simple-cache (app/data_storage.py) and  *)
(* of the command handlers that feed it.                                   *)
(*                                                                         *)
(* The server is a single-threaded asyncio program: a store operation runs *)
(* from its call to its return without suspension (asyncio.Lock.acquire    *)
(* does not yield when the lock is free, and no critical section awaits),  *)
(* so each store operation is one action.  The connections that issue the  *)
(* non-blocking commands are not tracked; `clients` are the connections    *)
(* that can block in BLPOP.  The suspension points that are                *)
(* modelled as separate actions are the BLPOP wait (registration, wake-up, *)
(* timeout firing, timeout handling) and the passage of time.              *)
(*                                                                         *)
(* Time is an integer number of milliseconds.  A string that the code      *)
(* splits on "-" (a stream ID) is modelled by the sequence of its          *)
(* dash-separated parts, so "5-3" is <<"5","3">>, "-" is <<"","">>,        *)
(* "-1-0" is <<"","1","0">> and "*" is <<"*">>.                            *)
(***************************************************************************)
EXTENDS Integers, Sequences, FiniteSets, TLC

VARIABLES storage_dict, blocked_clients, futures, clients, now, nextElem,
          fulfilLog, last

vars == <<storage_dict, blocked_clients, futures, clients, now, nextElem,
          fulfilLog, last>>

-----------------------------------------------------------------------------
(* Bounds *)

MaxTime == 3
MaxFutures == 3
MaxElems == 3
MaxPush == 2
MaxListLen == 3

ListKeys == {"k1"}
Clients == {"c1", "c2"}
Timeouts == {0, 1}

Keys == ListKeys \cup {"s", "e", "gt"}

-----------------------------------------------------------------------------
(* Values *)

\* expiry_time = None
NoExpiry == -1

\* ValueWithExpiry(value, expiry_time); value is a str, a list, a dict or an
\* OrderedSet.  An OrderedSet is its members in insertion order (mem) and the
\* identity of its containers items / item_set (obj): two OrderedSet values
\* with the same obj share their containers, so a change made through one
\* shows in the other.
Absent ==
    [kind |-> "none", str |-> "", lst |-> <<>>, strm |-> <<>>, mem |-> <<>>,
     obj |-> 0, exp |-> NoExpiry]

StrVal(v, e) ==
    [kind |-> "str", str |-> v, lst |-> <<>>, strm |-> <<>>, mem |-> <<>>,
     obj |-> 0, exp |-> e]

ListVal(l, e) ==
    [kind |-> "list", str |-> "", lst |-> l, strm |-> <<>>, mem |-> <<>>,
     obj |-> 0, exp |-> e]

StreamVal(x, e) ==
    [kind |-> "stream", str |-> "", lst |-> <<>>, strm |-> x, mem |-> <<>>,
     obj |-> 0, exp |-> e]

SetVal(m, o, e) ==
    [kind |-> "set", str |-> "", lst |-> <<>>, strm |-> <<>>, mem |-> m,
     obj |-> o, exp |-> e]

Min(a, b) == IF a < b THEN a ELSE b

RECURSIVE Reverse(_)
Reverse(s) == IF s = <<>> THEN <<>> ELSE Append(Reverse(Tail(s)), Head(s))

\* list[a:] for 0 <= a
DropOne(s, n) == SubSeq(s, 2, Len(s))

DropFirst(s, n) == SubSeq(s, Min(n, Len(s)) + 1, Len(s))

\* list[:a] for 0 <= a
TakeFirst(s, n) == SubSeq(s, 1, Min(n, Len(s)))

\* the record every action leaves in `last`: the operation, its arguments,
\* what it returned or raised, and the kind of frame written to the client
\* ("" when nothing is written)
NoOp == [op |-> "none", client |-> "", key |-> "", items |-> <<>>, count |-> 0,
         id |-> <<>>, id2 |-> <<>>, ret |-> 0, err |-> "", out |-> <<>>,
         reply |-> ""]

-----------------------------------------------------------------------------
(* Blocked-waiter registry *)

\* asyncio future created by blpop, with the wait_for timeout of its task
NewFuture(c, k, t) ==
    [state |-> "pending", key |-> k, ts |-> now, client |-> c,
     timeout |-> t, item |-> 0]

\* future.done(): the future has a result or is cancelled
FutDoneNever(futs, f) == FALSE

FutDone(futs, f) == futs[f].state # "pending"

\* heapq.heappop on tuples (timestamp, future, key): the entry with the
\* smallest timestamp; timestamps of queued waiters are distinct
HeapTopLast(q) == CHOOSE i \in 1..Len(q) : \A j \in 1..Len(q) : q[i].ts >= q[j].ts

HeapTop(q) == CHOOSE i \in 1..Len(q) : \A j \in 1..Len(q) : q[i].ts <= q[j].ts

RemoveAt(q, i) == SubSeq(q, 1, i - 1) \o SubSeq(q, i + 1, Len(q))

\* the order in which `while len(heap) > 0: heappop(heap)` yields the waiters
RECURSIVE DrainOrder(_)
DrainOrder(q) ==
    IF q = <<>> THEN <<>>
    ELSE LET i == HeapTop(q) IN <<q[i]>> \o DrainOrder(RemoveAt(q, i))

RECURSIVE SetResults(_, _, _)
SetResults(futs, ids, item) ==
    IF ids = <<>> THEN futs
    ELSE SetResults([futs EXCEPT ![Head(ids)].state = "result",
                                 ![Head(ids)].item = item],
                    Tail(ids), item)

\* how many of the futures to set receive the popped item
HandOffOne(ids) == IF ids = <<>> THEN <<>> ELSE <<Head(ids)>>

HandOffAll(ids) == ids

\* _unblock_clients_and_pop(key, accessed_list), given the entry that holds
\* accessed_list after the push.  Yields the entry, the queue, the futures,
\* the futures set in order, and the exception raised ("" for none).
UnblockClientsAndPop(key, entry, queue, futs) ==
    LET accessed_list == entry.lst
        popped == DrainOrder(queue)
        pend == SelectSeq(popped, LAMBDA w : ~FutDone(futs, w.fut))
        futures_to_set == HandOffAll([i \in 1..Len(pend) |-> pend[i].fut])
        stored == IF pend # <<>> THEN ListVal(accessed_list, NoExpiry) ELSE entry
    IN  IF futures_to_set = <<>>
        THEN [entry |-> stored, queue |-> <<>>, futs |-> futs,
              set |-> <<>>, err |-> ""]
        ELSE IF accessed_list = <<>>
        THEN [entry |-> stored, queue |-> <<>>, futs |-> futs,
              set |-> <<>>, err |-> "IndexError"]
        ELSE [entry |-> ListVal(Tail(accessed_list), NoExpiry), queue |-> <<>>,
              futs |-> SetResults(futs, futures_to_set, Head(accessed_list)),
              set |-> futures_to_set, err |-> ""]

-----------------------------------------------------------------------------
(* Lists *)

\* accessed_list.extend(items)
RPushListFront(l, items) == items \o l

RPushList(l, items) == l \o items

\* for i in range(len(items)): accessed_list.insert(i, items[len - i - 1])
RECURSIVE LPushInsert(_, _, _)
LPushInsert(l, items, i) ==
    IF i >= Len(items) THEN l
    ELSE LPushInsert(SubSeq(l, 1, i) \o <<items[Len(items) - i]>> \o SubSeq(l, i + 1, Len(l)),
                     items, i + 1)

LPushListPlain(l, items) == items \o l

LPushList(l, items) == LPushInsert(l, items, 0)

\* fresh elements nextElem, nextElem + 1, ... as the pushed arguments
FreshItems(n) == [i \in 1..n |-> nextElem + i - 1]

\* if key not in self.storage_dict: self.storage_dict[key] = ValueWithExpiry([], None)
Created(k) ==
    IF storage_dict[k].kind = "none" THEN ListVal(<<>>, NoExpiry) ELSE storage_dict[k]

\* list_len = len(accessed_list), taken between the push and the unblocking
ListLenAfterHandOff(pushed, handed) == Len(handed)

ListLen(pushed, handed) == Len(pushed)

\* rpush / lpush after the list was mutated into `pushed`: the length is
\* taken, then the waiters are unblocked
Push(k, items, opname, pushed) ==
    LET entry == [Created(k) EXCEPT !.lst = pushed]
        h == UnblockClientsAndPop(k, entry, blocked_clients[k], futures)
        list_len == ListLen(entry.lst, h.entry.lst)
    IN  /\ storage_dict' = [storage_dict EXCEPT ![k] = h.entry]
        /\ blocked_clients' = [blocked_clients EXCEPT ![k] = h.queue]
        /\ futures' = h.futs
        /\ fulfilLog' = fulfilLog \o h.set
        /\ last' = [NoOp EXCEPT !.op = opname, !.key = k,
                                !.items = items, !.ret = list_len, !.err = h.err,
                                !.out = h.set,
                                !.reply = IF h.err = "" THEN "integer" ELSE ""]

\* accessed_list.extend(items) and accessed_list.insert(i, item) on a value
\* that is no list raise AttributeError inside the critical section, before
\* anything is changed; nothing catches it up to the connection's task
PushRaises(k, items, opname) ==
    /\ last' = [NoOp EXCEPT !.op = opname, !.key = k, !.items = items,
                            !.err = "AttributeError"]
    /\ UNCHANGED <<storage_dict, blocked_clients, futures, fulfilLog, nextElem>>

RPush(k, n) ==
    /\ nextElem + n - 1 <= MaxElems
    /\ IF storage_dict[k].kind \in {"none", "list"}
       THEN /\ Len(storage_dict[k].lst) + n <= MaxListLen
            /\ Push(k, FreshItems(n), "rpush", RPushList(Created(k).lst, FreshItems(n)))
            /\ nextElem' = nextElem + n
       ELSE PushRaises(k, FreshItems(n), "rpush")
    /\ UNCHANGED <<clients, now>>

\* on a value that is no list, lpush is modelled for one element or more
\* (without elements it calls no list method before the hand-off)
LPush(k, n) ==
    /\ nextElem + n - 1 <= MaxElems
    /\ IF storage_dict[k].kind \in {"none", "list"}
       THEN /\ Len(storage_dict[k].lst) + n <= MaxListLen
            /\ Push(k, FreshItems(n), "lpush", LPushList(Created(k).lst, FreshItems(n)))
            /\ nextElem' = nextElem + n
       ELSE /\ n >= 1
            /\ PushRaises(k, FreshItems(n), "lpush")
    /\ UNCHANGED <<clients, now>>

\* a slice bound of a Python list of length n: negative counts from the end,
\* and the result is clamped to 0..n
SliceIndex(i, n) ==
    LET j == IF i < 0 THEN i + n ELSE i
    IN  IF j < 0 THEN 0 ELSE IF j > n THEN n ELSE j

\* list[a:b]
Slice(l, a, b) == SubSeq(l, SliceIndex(a, Len(l)) + 1, SliceIndex(b, Len(l)))

\* list[a:]
SliceFrom(l, a) == SubSeq(l, SliceIndex(a, Len(l)) + 1, Len(l))

\* lrange(key, start, end)
LRangeResult(entry, start, end) ==
    IF start > end /\ ((start > 0 /\ end > 0) \/ (start < 0 /\ end < 0)) THEN <<>>
    ELSE IF entry.kind # "list" THEN <<>>
    ELSE LET list_len == Len(entry.lst)
             end2 == IF end >= list_len THEN list_len - 1 ELSE end
         IN  IF start >= list_len THEN <<>>
             ELSE IF end2 = -1 THEN SliceFrom(entry.lst, start)
             ELSE IF start = -1 THEN SliceFrom(entry.lst, start)
             ELSE Slice(entry.lst, start, end2 + 1)

LRange(k, start, end) ==
    /\ last' = [NoOp EXCEPT !.op = "lrange", !.key = k, !.count = start, !.ret = end,
                            !.out = LRangeResult(storage_dict[k], start, end),
                            !.reply = "array"]
    /\ UNCHANGED <<storage_dict, blocked_clients, futures, clients, now, nextElem, fulfilLog>>

\* lpop(key, count): the entry afterwards and the removed items (<<>> with
\* none = TRUE for None)
LPopResultLast(entry, count) ==
    IF entry.kind = "list" /\ entry.lst # <<>>
    THEN [entry |-> ListVal(SubSeq(entry.lst, 1, Len(entry.lst) - 1), entry.exp),
          out |-> <<entry.lst[Len(entry.lst)]>>, none |-> FALSE]
    ELSE [entry |-> entry, out |-> <<>>, none |-> TRUE]

LPopResult(entry, count) ==
    IF entry.kind = "list" /\ entry.lst # <<>>
    THEN [entry |-> ListVal(DropFirst(entry.lst, count), entry.exp),
          out |-> TakeFirst(entry.lst, count), none |-> FALSE]
    ELSE [entry |-> entry, out |-> <<>>, none |-> TRUE]

LPop(k, count) ==
    /\ LET r == LPopResult(storage_dict[k], count)
       IN  /\ storage_dict' = [storage_dict EXCEPT ![k] = r.entry]
           /\ last' = [NoOp EXCEPT !.op = "lpop", !.key = k,
                                   !.count = count, !.out = r.out,
                                   !.err = IF r.none THEN "None" ELSE "",
                                   !.reply = IF r.none THEN "null bulk"
                                             ELSE IF Len(r.out) = 1 THEN "bulk"
                                             ELSE "array"]
    /\ UNCHANGED <<blocked_clients, futures, clients, now, nextElem, fulfilLog>>

\* blpop up to the await: the LPOP probe, then the registration of a waiter
Blpop(c, k, t) ==
    /\ clients[c].pc = "idle"
    /\ LET r == LPopResult(storage_dict[k], 1)
       IN  IF ~r.none
           THEN /\ storage_dict' = [storage_dict EXCEPT ![k] = r.entry]
                /\ last' = [NoOp EXCEPT !.op = "blpop", !.client = c, !.key = k,
                                        !.count = t, !.out = <<r.out[1]>>,
                                        !.reply = "array"]
                /\ UNCHANGED <<blocked_clients, futures, clients, now>>
           ELSE /\ Len(futures) < MaxFutures
                /\ now < MaxTime
                /\ futures' = Append(futures, NewFuture(c, k, t))
                /\ blocked_clients' =
                       [blocked_clients EXCEPT ![k] =
                           Append(@, [ts |-> now, fut |-> Len(futures) + 1, key |-> k])]
                /\ clients' = [clients EXCEPT ![c].pc = "blocked", ![c].fut = Len(futures) + 1]
                /\ now' = now + 1
                /\ last' = [NoOp EXCEPT !.op = "blpop_block", !.client = c, !.key = k,
                                        !.count = t, !.ret = Len(futures) + 1]
                /\ UNCHANGED storage_dict
    /\ UNCHANGED <<nextElem, fulfilLog>>

\* future.set_result(None) of unblock_all_blocked_clients
NoneResult == -1

\* the awaited future has a result: blpop reads blocked_info.removed_item and
\* returns it; on a None result the attribute access raises AttributeError,
\* which unwinds the handler without a reply
BlpopWake(c) ==
    /\ clients[c].pc = "blocked"
    /\ futures[clients[c].fut].state = "result"
    /\ IF futures[clients[c].fut].item = NoneResult
       THEN /\ clients' = [clients EXCEPT ![c].pc = "gone"]
            /\ last' = [NoOp EXCEPT !.op = "blpop_wake", !.client = c,
                                    !.key = futures[clients[c].fut].key,
                                    !.ret = clients[c].fut,
                                    !.err = "AttributeError"]
       ELSE /\ clients' = [clients EXCEPT ![c].pc = "idle", ![c].fut = 0]
            /\ last' = [NoOp EXCEPT !.op = "blpop_wake", !.client = c,
                                    !.key = futures[clients[c].fut].key,
                                    !.ret = clients[c].fut,
                                    !.out = <<futures[clients[c].fut].item>>,
                                    !.reply = "array"]
    /\ UNCHANGED <<storage_dict, blocked_clients, futures, now, nextElem, fulfilLog>>

\* asyncio.wait_for reaches its timeout with the future still pending and
\* cancels it
TimeoutFire(c) ==
    /\ clients[c].pc = "blocked"
    /\ LET f == clients[c].fut
       IN  /\ futures[f].state = "pending"
           /\ futures[f].timeout > 0
           /\ now >= futures[f].ts + futures[f].timeout
           /\ futures' = [futures EXCEPT ![f].state = "cancelled"]
           /\ clients' = [clients EXCEPT ![c].pc = "timedout"]
           /\ last' = [NoOp EXCEPT !.op = "timeout_fire", !.client = c,
                                   !.key = futures[f].key, !.ret = f]
    /\ UNCHANGED <<storage_dict, blocked_clients, now, nextElem, fulfilLog>>

\* except asyncio.TimeoutError: rebuild the heap without the future
TimeoutHandleKeep(c) ==
    /\ clients[c].pc = "timedout"
    /\ last' = [NoOp EXCEPT !.op = "blpop_timeout", !.client = c,
                            !.key = futures[clients[c].fut].key,
                            !.ret = clients[c].fut, !.err = "None", !.reply = "null bulk"]
    /\ clients' = [clients EXCEPT ![c].pc = "idle", ![c].fut = 0]
    /\ UNCHANGED <<storage_dict, blocked_clients, futures, now, nextElem, fulfilLog>>

TimeoutHandle(c) ==
    /\ clients[c].pc = "timedout"
    /\ LET f == clients[c].fut
           k == futures[f].key
       IN  /\ blocked_clients' =
                  [blocked_clients EXCEPT ![k] = SelectSeq(@, LAMBDA w : w.fut # f)]
           /\ last' = [NoOp EXCEPT !.op = "blpop_timeout", !.client = c, !.key = k,
                                   !.ret = f, !.err = "None", !.reply = "null bulk"]
    /\ clients' = [clients EXCEPT ![c].pc = "idle", ![c].fut = 0]
    /\ UNCHANGED <<storage_dict, futures, now, nextElem, fulfilLog>>

\* the task of a blocked client is cancelled (the client disconnects): the
\* awaited future is cancelled and CancelledError unwinds blpop, which
\* catches only TimeoutError
Disconnect(c) ==
    /\ clients[c].pc = "blocked"
    /\ futures[clients[c].fut].state = "pending"
    /\ futures' = [futures EXCEPT ![clients[c].fut].state = "cancelled"]
    /\ clients' = [clients EXCEPT ![c].pc = "gone"]
    /\ last' = [NoOp EXCEPT !.op = "disconnect", !.client = c,
                            !.key = futures[clients[c].fut].key,
                            !.ret = clients[c].fut]
    /\ UNCHANGED <<storage_dict, blocked_clients, now, nextElem, fulfilLog>>

\* unblock_all_blocked_clients: every queue is drained with heappop, each
\* future that is not done gets the result None, and the registry is cleared
UnblockAllBlockedClients ==
    /\ \E k \in Keys : blocked_clients[k] # <<>>
    /\ futures' = [f \in 1..Len(futures) |->
                      IF /\ \E k \in Keys : \E i \in 1..Len(blocked_clients[k]) :
                                blocked_clients[k][i].fut = f
                         /\ ~FutDone(futures, f)
                      THEN [futures[f] EXCEPT !.state = "result", !.item = NoneResult]
                      ELSE futures[f]]
    /\ blocked_clients' = [k \in Keys |-> <<>>]
    /\ last' = [NoOp EXCEPT !.op = "unblock_all"]
    /\ UNCHANGED <<storage_dict, clients, now, nextElem, fulfilLog>>

\* no SHUTDOWN has been handled
ServerUp == \A c \in Clients : clients[c].pc # "down"

\* SHUTDOWN sent by client c: handle_server closes c's writer and sends SIGINT
\* to the process; main() then cancels every task.  The future awaited by a
\* blocked client is cancelled with its task, CancelledError unwinds blpop,
\* and nothing is written to any client; the registry is not touched.
Shutdown(c) ==
    /\ clients[c].pc = "idle"
    /\ ServerUp
    /\ futures' = [f \in 1..Len(futures) |->
                      IF futures[f].state = "pending"
                      THEN [futures[f] EXCEPT !.state = "cancelled"]
                      ELSE futures[f]]
    /\ clients' = [d \in Clients |-> [clients[d] EXCEPT !.pc = "down"]]
    /\ last' = [NoOp EXCEPT !.op = "shutdown", !.client = c]
    /\ UNCHANGED <<storage_dict, blocked_clients, now, nextElem, fulfilLog>>

\* time.time() advances
Tick ==
    /\ now < MaxTime
    /\ now' = now + 1
    /\ last' = [NoOp EXCEPT !.op = "tick"]
    /\ UNCHANGED <<storage_dict, blocked_clients, futures, clients, nextElem, fulfilLog>>

-----------------------------------------------------------------------------
(* Specification of the list commands and the blocked-waiter registry *)

Init ==
    /\ storage_dict = [k \in Keys |-> Absent]
    /\ blocked_clients = [k \in Keys |-> <<>>]
    /\ futures = <<>>
    /\ clients = [c \in Clients |-> [pc |-> "idle", fut |-> 0, command_list |-> <<>>,
                                   sent |-> <<>>]]
    /\ now = 0
    /\ nextElem = 1
    /\ fulfilLog = <<>>
    /\ last = NoOp

NextList ==
    \/ \E k \in ListKeys, n \in 0..MaxPush : RPush(k, n)
    \/ \E k \in ListKeys, n \in 0..MaxPush : LPush(k, n)
    \/ \E k \in ListKeys, n \in 1..MaxPush : LPop(k, n)
    \/ \E c \in Clients, k \in ListKeys, t \in Timeouts : Blpop(c, k, t)
    \/ \E c \in Clients : BlpopWake(c)
    \/ \E c \in Clients : TimeoutFire(c)
    \/ \E c \in Clients : TimeoutHandle(c)
    \/ \E c \in Clients : Disconnect(c)
    \/ Tick

SpecList == Init /\ [][NextList]_vars

-----------------------------------------------------------------------------
(* Streams *)

MaxMs == 2
MaxSeq == 1
MaxStreamLen == 2
MaxCount == 1

\* the largest number a stream ID of the model can hold
NumLimit == MaxMs + MaxSeq + MaxTime + MaxStreamLen

\* int(s) for the strings of the model: the decimal numerals and, as a
\* numeral that str() does not produce, "01"
IsIntStr(s) == s = "01" \/ \E n \in 0..NumLimit : ToString(n) = s

IntOf(s) == IF s = "01" THEN 1 ELSE CHOOSE n \in 0..NumLimit : ToString(n) = s

\* f"{milliseconds}-{sequence_number}"
IdStr(ms, seq) == <<ToString(ms), ToString(seq)>>

\* stream[id] = field_value_pairs on an insertion-ordered dict
DictSet(stream, id, fv) ==
    IF \E i \in 1..Len(stream) : stream[i].id = id
    THEN [i \in 1..Len(stream) |->
             IF stream[i].id = id THEN [id |-> id, fv |-> fv] ELSE stream[i]]
    ELSE Append(stream, [id |-> id, fv |-> fv])

ErrInvalidId == "ERR Invalid stream ID specified as stream command argument"

ErrZeroZero == "ERR The ID specified in XADD must be greater than 0-0"

ErrTopItem == "ERR The ID specified in XADD is equal or smaller than the target stream top item"

\* the parse of the id argument before the lock is taken: which parts are
\* generated, the numbers read, whether milliseconds was assigned at all
ParseXaddId(id, t) ==
    IF id = <<"*">>
    THEN [err |-> "", autoMs |-> TRUE, autoSeq |-> TRUE, ms |-> t, seq |-> 0, bound |-> TRUE]
    ELSE IF Len(id) # 2
    THEN [err |-> ErrInvalidId, autoMs |-> FALSE, autoSeq |-> FALSE, ms |-> 0, seq |-> 0, bound |-> FALSE]
    ELSE IF IsIntStr(id[1]) /\ IsIntStr(id[2])
    THEN [err |-> "", autoMs |-> FALSE, autoSeq |-> FALSE,
          ms |-> IntOf(id[1]), seq |-> IntOf(id[2]), bound |-> TRUE]
    ELSE IF id[2] = "*"
    THEN [err |-> "", autoMs |-> FALSE, autoSeq |-> TRUE,
          ms |-> IF IsIntStr(id[1]) THEN IntOf(id[1]) ELSE 0, seq |-> 0,
          bound |-> IsIntStr(id[1])]
    ELSE [err |-> ErrInvalidId, autoMs |-> FALSE, autoSeq |-> FALSE, ms |-> 0, seq |-> 0, bound |-> FALSE]

\* the explicit ID is not greater than the last entry's
TopItemRejectsLax(ms, seq, lm, ls) == ms < lm \/ (ms = lm /\ seq < ls)

TopItemRejects(ms, seq, lm, ls) == ms < lm \/ (ms = lm /\ seq <= ls)

\* the generated sequence number on a stream whose last entry is lm-ls
AutoSeqPlain(ms, lm, ls) == IF ms = lm THEN ls + 1 ELSE 0

AutoSeq(ms, lm, ls) ==
    IF ms = 0
    THEN (IF ms = lm THEN ls + 1 ELSE 1)
    ELSE (IF ms = lm THEN ls + 1 ELSE 0)

\* the generated sequence number on a key that does not exist
FirstSeqZero(ms) == 0

FirstSeq(ms) == IF ms = 0 THEN 1 ELSE 0

\* xadd(key, id, field_value_pairs) at time t on the entry of the key: the
\* entry afterwards, the ID returned, the exception raised ("" for none)
XAddResult(entry, id, fv, t) ==
    LET p == ParseXaddId(id, t)
        Fail(e) == [entry |-> entry, id |-> <<>>, err |-> e]
        Store(x, newid) == [entry |-> StreamVal(DictSet(x, newid, fv), entry.exp),
                            id |-> newid, err |-> ""]
    IN  IF p.err # "" THEN Fail(p.err)
        ELSE IF ~p.autoMs /\ ~p.autoSeq /\ p.ms = 0 /\ p.seq = 0 THEN Fail(ErrZeroZero)
        ELSE IF entry.kind # "none"
        THEN LET stream == entry.strm
                 lastid == stream[Len(stream)].id
                 lm == IntOf(lastid[1])
                 ls == IntOf(lastid[2])
             IN  IF p.autoSeq
                 THEN IF ~p.bound THEN Fail("UnboundLocalError")
                      ELSE Store(stream, IdStr(p.ms, AutoSeq(p.ms, lm, ls)))
                 ELSE IF TopItemRejects(p.ms, p.seq, lm, ls) THEN Fail(ErrTopItem)
                 ELSE Store(stream, id)
        ELSE IF p.autoSeq
             THEN IF ~p.bound THEN Fail("UnboundLocalError")
                  ELSE Store(<<>>, IdStr(p.ms, FirstSeq(p.ms)))
             ELSE Store(<<>>, id)

MsStrs == {ToString(n) : n \in 0..MaxMs} \cup {"01"}

SeqStrs == {ToString(n) : n \in 0..MaxSeq}

\* the id arguments of XADD: explicit, partially generated, fully generated,
\* and malformed ones ("x-0", "0-x", "x-*", "1", "-1-0")
XaddIds ==
    {<<m, q>> : m \in MsStrs, q \in SeqStrs \cup {"*"}}
        \cup {<<"*">>, <<"x", "0">>, <<"0", "x">>, <<"x", "*">>, <<"1">>, <<"", "1", "0">>}

Payloads == {"a"}

\* _handle_xadd: the call of xadd and the reply
XAdd(k, id, fv) ==
    /\ storage_dict[k].kind \in {"none", "stream"}
    /\ LET r == XAddResult(storage_dict[k], id, fv, now)
       IN  /\ Len(r.entry.strm) <= MaxStreamLen
           /\ r.err = "" => IntOf(r.id[2]) <= MaxSeq + MaxStreamLen
           /\ storage_dict' = [storage_dict EXCEPT ![k] = r.entry]
           /\ last' = [NoOp EXCEPT !.op = "xadd", !.key = k, !.id = id,
                                   !.items = <<fv>>, !.out = r.id, !.err = r.err,
                                   !.reply = IF r.err = "" THEN "bulk"
                                             ELSE IF r.err = "UnboundLocalError" THEN ""
                                             ELSE "error"]
    /\ UNCHANGED <<blocked_clients, futures, clients, now, nextElem, fulfilLog>>

\* sequence_number1 <= sequence_number2
SeqLT(a, b) == a < b

SeqLE(a, b) == a <= b

RECURSIVE MaxSeqAt(_, _, _)
\* max(int(entry_id.split("-")[1]) for entry_id in stream.keys()
\*     if entry_id.startswith(f"{milliseconds2}-"), default=0)
MaxSeqAt(stream, ms2, i) ==
    IF i > Len(stream) THEN 0
    ELSE LET rest == MaxSeqAt(stream, ms2, i + 1)
             eid == stream[i].id
         IN  IF eid[1] = ToString(ms2) /\ IntOf(eid[2]) > rest THEN IntOf(eid[2]) ELSE rest

\* id_less_than_equal(id1, id2): "T", "F", or "E" when it raises ValueError
IdLessThanEqual(id1, id2, stream) ==
    IF id1 = <<"", "">> \/ id2 = <<"+">> THEN "T"
    ELSE IF id1 = <<"+">> \/ id2 = <<"", "">> THEN "F"
    ELSE IF Len(id1) > 2 \/ Len(id2) > 2 THEN "E"
    ELSE IF ~IsIntStr(id1[1]) \/ ~IsIntStr(id2[1]) THEN "E"
    ELSE LET ms1 == IntOf(id1[1])
             ms2 == IntOf(id2[1])
             Cmp(s1, s2) == IF ms1 < ms2 THEN "T"
                            ELSE IF ms1 > ms2 THEN "F"
                            ELSE IF SeqLE(s1, s2) THEN "T" ELSE "F"
             IndexErr == Cmp(0, MaxSeqAt(stream, ms2, 1))
         IN  IF Len(id1) < 2 THEN IndexErr
             ELSE IF ~IsIntStr(id1[2]) THEN "E"
             ELSE IF Len(id2) < 2 THEN IndexErr
             ELSE IF ~IsIntStr(id2[2]) THEN "E"
             ELSE Cmp(IntOf(id1[2]), IntOf(id2[2]))

RECURSIVE XRangeScan(_, _, _, _, _, _)
\* the loop of xrange over stream.items() from entry i on, with the entries
\* collected so far; count is <<>> for None and <<n>> for n
XRangeScan(stream, start, end, count, i, entries) ==
    IF i > Len(stream) THEN [out |-> entries, err |-> ""]
    ELSE LET a == IdLessThanEqual(start, stream[i].id, stream)
             b == IdLessThanEqual(stream[i].id, end, stream)
         IN  IF a = "E" THEN [out |-> <<>>, err |-> ErrInvalidId]
             ELSE IF a = "F" THEN XRangeScan(stream, start, end, count, i + 1, entries)
             ELSE IF b = "E" THEN [out |-> <<>>, err |-> ErrInvalidId]
             ELSE IF b = "F" THEN XRangeScan(stream, start, end, count, i + 1, entries)
             ELSE IF count # <<>> /\ Len(entries) + 1 >= count[1]
                  THEN [out |-> Append(entries, stream[i]), err |-> ""]
                  ELSE XRangeScan(stream, start, end, count, i + 1, Append(entries, stream[i]))

\* xrange(key, start, end, count)
XRangeResult(entry, start, end, count) ==
    IF entry.kind = "stream"
    THEN XRangeScan(entry.strm, start, end, count, 1, <<>>)
    ELSE [out |-> <<>>, err |-> ""]

\* the XRANGE command of handle_server: a count <= 0 is answered with a null
\* bulk string without querying the store
XRange(k, start, end, count) ==
    /\ IF count # <<>> /\ count[1] <= 0
       THEN last' = [NoOp EXCEPT !.op = "xrange", !.key = k, !.id = start, !.id2 = end,
                                 !.items = count, !.err = "count", !.reply = "null bulk"]
       ELSE LET r == XRangeResult(storage_dict[k], start, end, count)
            IN  last' = [NoOp EXCEPT !.op = "xrange", !.key = k, !.id = start, !.id2 = end,
                                     !.items = count, !.out = r.out, !.err = r.err,
                                     !.reply = IF r.err = "" THEN "array" ELSE "error"]
    /\ UNCHANGED <<storage_dict, blocked_clients, futures, clients, now, nextElem, fulfilLog>>

\* _handle_xrange of commands/stream_commands.py: for a count <= 0 the
\* coroutine write_and_drain(...) is created but never awaited, so nothing is
\* written before the handler returns
HandleXrange(k, start, end, count) ==
    /\ IF count # <<>> /\ count[1] <= 0
       THEN last' = [NoOp EXCEPT !.op = "xrange", !.key = k, !.id = start, !.id2 = end,
                                 !.items = count, !.err = "count", !.reply = ""]
       ELSE LET r == XRangeResult(storage_dict[k], start, end, count)
            IN  last' = [NoOp EXCEPT !.op = "xrange", !.key = k, !.id = start, !.id2 = end,
                                     !.items = count, !.out = r.out, !.err = r.err,
                                     !.reply = IF r.err = "" THEN "array" ELSE "error"]
    /\ UNCHANGED <<storage_dict, blocked_clients, futures, clients, now, nextElem, fulfilLog>>

\* set(key, value, expiry_time); `out` records the variant that was replaced
Set(k, v, e) ==
    /\ storage_dict' = [storage_dict EXCEPT ![k] = StrVal(v, e)]
    /\ last' = [NoOp EXCEPT !.op = "set", !.key = k, !.items = <<v>>, !.ret = e,
                            !.out = <<storage_dict[k].kind>>, !.reply = "simple"]
    /\ UNCHANGED <<blocked_clients, futures, clients, now, nextElem, fulfilLog>>

\* the bounds given to XRANGE: "-", "+", <ms>, <ms>-<seq>, and malformed
\* ones ("x", "1-x", "-1-0")
RangeIds ==
    {<<"", "">>, <<"+">>, <<"1">>, <<"1", "0">>, <<"1", "1">>, <<"2", "0">>,
     <<"x">>, <<"1", "x">>, <<"", "1", "0">>}

RangeCounts == {<<>>} \cup {<<n>> : n \in 0..MaxCount}

RangeXaddIds ==
    {<<"1", "0">>, <<"1", "1">>, <<"2", "0">>, <<"01", "1">>, <<"1", "*">>, <<"2", "*">>}

NextRange ==
    \/ \E id \in RangeXaddIds : XAdd("s", id, "a")
    \/ \E start \in RangeIds, end \in RangeIds, count \in RangeCounts :
           XRange("s", start, end, count)
    \/ Set("s", "v", NoExpiry)

SpecRange == Init /\ [][NextRange]_vars

\* the XRANGE commands of the two dispatchers, with counts below, at and
\* above zero
CmdRangeIds == {<<"", "">>, <<"+">>, <<"1">>}

CmdCounts == {<<>>} \cup {<<n>> : n \in -1..MaxCount}

NextXrangeCmd ==
    \/ \E id \in RangeXaddIds : XAdd("s", id, "a")
    \/ \E start \in CmdRangeIds, end \in CmdRangeIds, count \in CmdCounts :
           XRange("s", start, end, count)
    \/ \E start \in CmdRangeIds, end \in CmdRangeIds, count \in CmdCounts :
           HandleXrange("s", start, end, count)

SpecXrangeCmd == Init /\ [][NextXrangeCmd]_vars

NextStream ==
    \/ \E id \in XaddIds, fv \in Payloads : XAdd("s", id, fv)
    \/ Tick

SpecStream == Init /\ [][NextStream]_vars


-----------------------------------------------------------------------------
(* Strings and generic commands *)

MaxPx == 2

Values == {"v", "w"}

\* curr_time > item.expiry_time on an item with a deadline
GetExpiredEarly(item, t) == item.exp # NoExpiry /\ t >= item.exp

GetExpired(item, t) == item.exp # NoExpiry /\ t > item.exp

\* get(key): an expired entry is deleted and None returned
Get(k) ==
    /\ LET item == storage_dict[k]
       IN  IF item.kind # "none" /\ GetExpired(item, now)
           THEN /\ storage_dict' = [storage_dict EXCEPT ![k] = Absent]
                /\ last' = [NoOp EXCEPT !.op = "get", !.key = k, !.err = "None",
                                        !.out = <<"expired">>, !.reply = "null bulk"]
           ELSE /\ storage_dict' = storage_dict
                /\ last' = IF item.kind # "none"
                           THEN [NoOp EXCEPT !.op = "get", !.key = k, !.items = <<item.str>>,
                                             !.reply = IF item.kind = "str" THEN "bulk" ELSE "error"]
                           ELSE [NoOp EXCEPT !.op = "get", !.key = k, !.err = "None",
                                             !.reply = "null bulk"]
    /\ UNCHANGED <<blocked_clients, futures, clients, now, nextElem, fulfilLog>>

\* exists(key): key in self.storage_dict
Exists(k) ==
    /\ last' = [NoOp EXCEPT !.op = "exists", !.key = k,
                            !.ret = IF storage_dict[k].kind # "none" THEN 1 ELSE 0,
                            !.reply = "integer"]
    /\ UNCHANGED <<storage_dict, blocked_clients, futures, clients, now, nextElem, fulfilLog>>

\* key_type(key)
KeyType(k) ==
    /\ last' = [NoOp EXCEPT !.op = "key_type", !.key = k,
                            !.items = <<storage_dict[k].kind>>, !.reply = "simple"]
    /\ UNCHANGED <<storage_dict, blocked_clients, futures, clients, now, nextElem, fulfilLog>>

\* llen(key)
LLen(k) ==
    /\ last' = [NoOp EXCEPT !.op = "llen", !.key = k,
                            !.ret = IF storage_dict[k].kind = "list"
                                    THEN Len(storage_dict[k].lst) ELSE 0,
                            !.reply = "integer"]
    /\ UNCHANGED <<storage_dict, blocked_clients, futures, clients, now, nextElem, fulfilLog>>

\* str.upper() on the strings of the model
Upper(s) ==
    CASE s = "px" -> "PX"
      [] s = "ex" -> "EX"
      [] s = "keepttl" -> "KEEPTTL"
      [] s = "nx" -> "NX"
      [] s = "xx" -> "XX"
      [] s = "gt" -> "GT"
      [] s = "lt" -> "LT"
      [] s = "e" -> "E"
      [] s = "v" -> "V"
      [] s = "w" -> "W"
      [] OTHER -> s

\* upper_args.index(flag), 0 when flag is not in upper_args
FlagIndex(args, flag) ==
    IF \E i \in 1..Len(args) : Upper(args[i]) = flag
    THEN CHOOSE i \in 1..Len(args) :
             /\ Upper(args[i]) = flag
             /\ \A j \in 1..(i - 1) : Upper(args[j]) # flag
    ELSE 0

\* the number after the flag: int(args[index + 1]) if index + 1 < len(args),
\* else 0; err is "ValueError" when int() raises
FlagAmount(args, flag) ==
    LET i == FlagIndex(args, flag)
    IN  IF i + 1 > Len(args) THEN [err |-> "", n |-> 0]
        ELSE IF IsIntStr(args[i + 1]) THEN [err |-> "", n |-> IntOf(args[i + 1])]
        ELSE [err |-> "ValueError", n |-> 0]

\* get_expiry_time(key): the deadline of the key, None when it has none
GetExpiryTime(item) == IF item.kind = "none" THEN NoExpiry ELSE item.exp

\* set_ttl(key, expiry_time): the deadline of an existing key is replaced
SetTtl(sd, key, expiry_time) ==
    IF sd[key].kind = "none" THEN sd ELSE [sd EXCEPT ![key].exp = expiry_time]

\* the expiry _handle_set computes from its arguments at time t (in ms) for
\* the stored item: the flags are looked up among all the arguments, the key
\* and the value included
SetExpiry(args, t, item) ==
    LET has(flag) == FlagIndex(args, flag) # 0
        amount(flag, from, scale) ==
            LET a == FlagAmount(args, flag)
            IN  [err |-> a.err, exp |-> from + scale * a.n]
    IN  IF has("EX") THEN amount("EX", t, 1000)
        ELSE IF has("PX") THEN amount("PX", t, 1)
        ELSE IF has("EXAT") THEN amount("EXAT", 0, 1000)
        ELSE IF has("PXAT") THEN amount("PXAT", 0, 1)
        ELSE IF has("KEEPTTL") THEN [err |-> "", exp |-> GetExpiryTime(item)]
        ELSE [err |-> "", exp |-> NoExpiry]

\* _handle_set(args): the SET command; `id` records the arguments
HandleSet(args) ==
    LET key == args[1]
        value == args[2]
        x == SetExpiry(args, now, storage_dict[key])
    IN  /\ IF x.err = ""
           THEN /\ storage_dict' = [storage_dict EXCEPT ![key] = StrVal(value, x.exp)]
                /\ last' = [NoOp EXCEPT !.op = "set", !.key = key, !.items = <<value>>,
                                        !.id = args, !.ret = x.exp,
                                        !.out = <<storage_dict[key].kind>>,
                                        !.reply = "simple"]
           ELSE /\ storage_dict' = storage_dict
                /\ last' = [NoOp EXCEPT !.op = "set", !.key = key, !.items = <<value>>,
                                        !.id = args, !.err = x.err]
        /\ UNCHANGED <<blocked_clients, futures, clients, now, nextElem, fulfilLog>>

\* the arguments of the SET commands: key and value alone, and with options
SetArgs ==
    {<<"e", v>> : v \in {"v", "px", "EX", "keepttl"}}
        \cup {<<"e", "v", "PX", "1">>, <<"e", "v", "px", "x">>, <<"e", "v", "PXAT", "2">>,
              <<"e", "v", "KEEPTTL">>}

\* key in self.storage_dict
KeyInList(entry) == entry.kind = "list"

KeyIn(entry) == entry.kind # "none"

\* delete(key); `out` records the variant that was removed
Delete(k) ==
    /\ storage_dict' = [storage_dict EXCEPT ![k] = IF KeyIn(@) THEN Absent ELSE @]
    /\ last' = [NoOp EXCEPT !.op = "delete", !.key = k,
                            !.ret = IF KeyIn(storage_dict[k]) THEN 1 ELSE 0,
                            !.out = <<storage_dict[k].kind>>, !.reply = "integer"]
    /\ UNCHANGED <<blocked_clients, futures, clients, now, nextElem, fulfilLog>>

NextKeys ==
    \/ \E v \in Values : Set("e", v, NoExpiry)
    \/ \E v \in Values, px \in 0..MaxPx : Set("e", v, now + px)
    \/ Get("e")
    \/ Exists("e")
    \/ KeyType("e")
    \/ LLen("e")
    \/ \E args \in SetArgs : HandleSet(args)
    \/ Delete("e")
    \/ RPush("e", 1)
    \/ XAdd("e", <<"1", "*">>, "a")
    \/ Tick

SpecKeys == Init /\ [][NextKeys]_vars

(* EXPIRE *)

ErrNotAnInteger == "ERR value is not an integer or out of range"

\* _handle_expire(args): EXPIRE key seconds [NX|XX|GT|LT]; `id` records the
\* arguments.  storage.get evicts an expired key first; the flags are looked
\* up among all the upper-cased arguments, the key included.
HandleExpire(args) ==
    LET key == args[1]
        item == storage_dict[key]
        got == IF item.kind # "none" /\ GetExpired(item, now)
               THEN [storage_dict EXCEPT ![key] = Absent] ELSE storage_dict
        has(flag) == FlagIndex(args, flag) # 0
        deadline == now + 1000 * IntOf(args[2])
        existing == GetExpiryTime(got[key])
        expire == IF has("NX") THEN existing = NoExpiry
                  ELSE IF has("XX") THEN existing # NoExpiry
                  ELSE IF has("GT") THEN existing # NoExpiry /\ deadline > existing
                  ELSE IF has("LT") THEN existing = NoExpiry \/ deadline < existing
                  ELSE TRUE
        done(ret) == [NoOp EXCEPT !.op = "expire", !.key = key, !.id = args,
                                  !.ret = ret, !.reply = "integer"]
    IN  /\ IF Len(args) \notin {2, 3}
           THEN /\ storage_dict' = storage_dict
                /\ last' = [NoOp EXCEPT !.op = "expire", !.key = key, !.id = args,
                                        !.err = "ERR wrong number of arguments",
                                        !.reply = "error"]
           ELSE IF ~IsIntStr(args[2])
           THEN /\ storage_dict' = storage_dict
                /\ last' = [NoOp EXCEPT !.op = "expire", !.key = key, !.id = args,
                                        !.err = ErrNotAnInteger, !.reply = "error"]
           ELSE IF got[key].kind = "none"
           THEN /\ storage_dict' = got
                /\ last' = done(0)
           ELSE IF expire
           THEN /\ storage_dict' = SetTtl(got, key, deadline)
                /\ last' = done(1)
           ELSE /\ storage_dict' = got
                /\ last' = done(0)
        /\ UNCHANGED <<blocked_clients, futures, clients, now, nextElem, fulfilLog>>

\* the keys, seconds and flags given to EXPIRE
ExpireKeys == {"e", "gt"}

ExpireArgs ==
    {<<k, n>> : k \in ExpireKeys, n \in {"0", "1", "2", "x"}}
        \cup {<<k, n, f>> : k \in ExpireKeys, n \in {"0", "1", "2"},
                            f \in {"NX", "XX", "GT", "LT", "lt"}}
        \cup {<<"e">>}

NextExpire ==
    \/ \E k \in ExpireKeys : Set(k, "v", NoExpiry)
    \/ \E args \in ExpireArgs : HandleExpire(args)
    \/ \E k \in ExpireKeys : Delete(k)
    \/ Tick

SpecExpire == Init /\ [][NextExpire]_vars


-----------------------------------------------------------------------------
(* INCR *)

\* the largest number INCR is applied to
MaxIncr == 3

\* INCR_NON_INTEGER
IncrNonInteger == "ERR value is not an integer or out of range"

\* the strings given to SET before INCR: numbers, a number with a leading
\* zero, a negative number, no number, the empty string
IncrValues == {ToString(n) : n \in 0..MaxIncr} \cup {"01", "-1", "v", ""}

\* value.isdigit(): every character is a digit and there is at least one
IsDigit(value) == IsIntStr(value)

\* new_value = int(value) + 1
IncrSame(value) == IntOf(value)

IncrNewValue(value) == IntOf(value) + 1

\* self.lock is held at no suspension point of a store method: every
\* `async with self.lock` block runs without an await inside it
LockHeld == FALSE

\* asyncio.Lock.acquire suspends the calling task only while the lock is held
AcquireAlwaysSuspends(locked) == TRUE

AcquireSuspends(locked) == locked

\* leaving an `async with self.lock` block (Lock.release) never suspends the
\* task, and rpush / lpush await nothing between the block and the hand-off
ReleaseAlwaysSuspends == TRUE

ReleaseSuspends == FALSE

\* `await self.lpop(key, 1)` in blpop: awaiting a coroutine suspends the
\* task only if the coroutine itself suspends
AwaitAlwaysSuspends(suspended) == TRUE

AwaitSuspends(suspended) == suspended

\* the task of client c may run: no other task is between two steps of its
\* handler, unless what lies between the steps suspended it
Scheduled(c) ==
    \A d \in Clients \ {c} :
        /\ clients[d].pc = "incr_set" => AcquireSuspends(LockHeld)
        /\ clients[d].pc = "push" => ReleaseSuspends
        /\ clients[d].pc = "blpop_register" => AwaitSuspends(AcquireSuspends(LockHeld))

\* every task is at the top of its read loop
Quiet == \A c \in Clients : clients[c].pc # "incr_set"

\* a task other than those of Clients may run
Free == Scheduled("")

\* _handle_incr up to `await storage.set`: value = await storage.get(key),
\* which deletes an expired entry, then the error replies or new_value (kept
\* in the task, clients[c].fut)
IncrGet(c, key) ==
    LET item == storage_dict[key]
        expired == item.kind # "none" /\ GetExpired(item, now)
        reject(text) ==
            /\ clients' = clients
            /\ last' = [NoOp EXCEPT !.op = "incr", !.client = c, !.key = key,
                                    !.err = text, !.reply = "error"]
        go(new_value) ==
            /\ clients' = [clients EXCEPT ![c].pc = "incr_set", ![c].fut = new_value]
            /\ last' = [NoOp EXCEPT !.op = "incr_get", !.client = c, !.key = key]
    IN  /\ clients[c].pc = "idle"
        /\ Scheduled(c)
        /\ storage_dict' = IF expired THEN [storage_dict EXCEPT ![key] = Absent]
                           ELSE storage_dict
        /\ IF item.kind = "none" \/ expired THEN go(1)
           ELSE IF item.kind = "str" /\ ~IsDigit(item.str) THEN reject(IncrNonInteger)
           ELSE IF item.kind # "str" THEN reject("WRONGTYPE")
           ELSE /\ IntOf(item.str) < MaxIncr
                /\ go(IncrNewValue(item.str))
        /\ UNCHANGED <<blocked_clients, futures, now, nextElem, fulfilLog>>

\* the rest of _handle_incr: await storage.set(key, str(new_value)), then the
\* integer reply
IncrSet(c, key) ==
    /\ clients[c].pc = "incr_set"
    /\ Scheduled(c)
    /\ storage_dict' = [storage_dict EXCEPT ![key] = StrVal(ToString(clients[c].fut), NoExpiry)]
    /\ clients' = [clients EXCEPT ![c].pc = "idle", ![c].fut = 0]
    /\ last' = [NoOp EXCEPT !.op = "incr", !.client = c, !.key = key,
                            !.items = <<ToString(clients[c].fut)>>,
                            !.ret = clients[c].fut, !.reply = "integer"]
    /\ UNCHANGED <<blocked_clients, futures, now, nextElem, fulfilLog>>

(* Specification of INCR *)

NextIncr ==
    \/ \E c \in Clients : IncrGet(c, "e")
    \/ \E c \in Clients : IncrSet(c, "e")
    \/ \E v \in IncrValues : Quiet /\ Set("e", v, NoExpiry)
    \/ \E v \in IncrValues : Quiet /\ Set("e", v, now + 1)
    \/ Quiet /\ RPush("e", 1)
    \/ Quiet /\ Delete("e")
    \/ Quiet /\ Tick

SpecIncr == Init /\ [][NextIncr]_vars

-----------------------------------------------------------------------------
(* RPUSH and LPUSH step by step *)

\* rpush / lpush up to the end of `async with self.lock`: the list is created
\* and the items are appended or prepended.  The task keeps the command, the
\* key and the items (clients[c].command_list) for the hand-off.
PushBegin(c, opname, k, n) ==
    LET items == FreshItems(n)
        pushed == IF opname = "rpush" THEN RPushList(Created(k).lst, items)
                  ELSE LPushList(Created(k).lst, items)
    IN  /\ clients[c].pc = "idle"
        /\ clients[c].command_list = <<>>
        /\ Scheduled(c)
        /\ storage_dict[k].kind \in {"none", "list"}
        /\ nextElem + n - 1 <= MaxElems
        /\ Len(storage_dict[k].lst) + n <= MaxListLen
        /\ storage_dict' = [storage_dict EXCEPT ![k] = [Created(k) EXCEPT !.lst = pushed]]
        /\ clients' = [clients EXCEPT ![c].pc = "push",
                                      ![c].command_list = <<opname, k>> \o items]
        /\ nextElem' = nextElem + n
        /\ last' = [NoOp EXCEPT !.op = "push_begin", !.client = c, !.key = k,
                                !.items = items]
        /\ UNCHANGED <<blocked_clients, futures, now, fulfilLog>>

\* the rest of rpush / lpush: list_len = len(accessed_list), then
\* self._unblock_clients_and_pop(key, accessed_list)
PushHandOff(c) ==
    LET cl == clients[c].command_list
    IN  /\ clients[c].pc = "push"
        /\ Scheduled(c)
        /\ Push(cl[2], SubSeq(cl, 3, Len(cl)), cl[1], storage_dict[cl[2]].lst)
        /\ clients' = [clients EXCEPT ![c].pc = "idle", ![c].command_list = <<>>]
        /\ UNCHANGED <<now, nextElem>>

(* Specification of concurrent pushes *)

NextPushes ==
    \/ \E c \in Clients, opname \in {"rpush", "lpush"}, n \in 1..MaxPush :
           PushBegin(c, opname, "k1", n)
    \/ \E c \in Clients : PushHandOff(c)
    \/ \E c \in Clients : Free /\ Blpop(c, "k1", 0)
    \/ \E c \in Clients : Free /\ BlpopWake(c)
    \/ Free /\ LPop("k1", 1)
    \/ Free /\ LLen("k1")
    \/ Free /\ LRange("k1", 0, -1)

SpecPushes == Init /\ [][NextPushes]_vars

-----------------------------------------------------------------------------
(* BLPOP step by step *)

\* blpop up to the return of `await self.lpop(key, 1)`: the probe of the
\* list.  An element is returned at once; otherwise the task goes on to
\* register a waiter and keeps the key and the timeout
\* (clients[c].command_list).
BlpopProbe(c, k, t) ==
    /\ clients[c].pc = "idle"
    /\ clients[c].command_list = <<>>
    /\ Scheduled(c)
    /\ LET r == LPopResult(storage_dict[k], 1)
       IN  IF ~r.none
           THEN /\ storage_dict' = [storage_dict EXCEPT ![k] = r.entry]
                /\ last' = [NoOp EXCEPT !.op = "blpop", !.client = c, !.key = k,
                                        !.count = t, !.out = <<r.out[1]>>,
                                        !.reply = "array"]
                /\ clients' = clients
           ELSE /\ Len(futures) < MaxFutures
                /\ now < MaxTime
                /\ clients' = [clients EXCEPT ![c].pc = "blpop_register",
                                              ![c].command_list = <<"blpop", k, t>>]
                /\ last' = [NoOp EXCEPT !.op = "blpop_probe", !.client = c, !.key = k,
                                        !.count = t, !.err = "None"]
                /\ storage_dict' = storage_dict
    /\ UNCHANGED <<blocked_clients, futures, now, nextElem, fulfilLog>>

\* the rest of blpop up to `await asyncio.wait_for(future, ...)`: the future
\* is created and pushed on the heap of the key
BlpopRegister(c) ==
    LET k == clients[c].command_list[2]
        t == clients[c].command_list[3]
    IN  /\ clients[c].pc = "blpop_register"
        /\ Scheduled(c)
        /\ futures' = Append(futures, NewFuture(c, k, t))
        /\ blocked_clients' =
               [blocked_clients EXCEPT ![k] =
                   Append(@, [ts |-> now, fut |-> Len(futures) + 1, key |-> k])]
        /\ clients' = [clients EXCEPT ![c].pc = "blocked", ![c].fut = Len(futures) + 1,
                                      ![c].command_list = <<>>]
        /\ now' = now + 1
        /\ last' = [NoOp EXCEPT !.op = "blpop_block", !.client = c, !.key = k,
                                !.count = t, !.ret = Len(futures) + 1]
        /\ UNCHANGED <<storage_dict, nextElem, fulfilLog>>

(* Specification of BLPOP against pushes *)

NextProbe ==
    \/ \E c \in Clients : BlpopProbe(c, "k1", 0)
    \/ \E c \in Clients : BlpopRegister(c)
    \/ \E c \in Clients : Free /\ BlpopWake(c)
    \/ \E n \in 1..MaxPush : Free /\ RPush("k1", n)
    \/ \E n \in 1..MaxPush : Free /\ LPush("k1", n)
    \/ Free /\ LPop("k1", 1)
    \/ Free /\ Delete("k1")

SpecProbe == Init /\ [][NextProbe]_vars

-----------------------------------------------------------------------------
(* Connection handler: parsing and dispatch of a read *)

\* the lines (separated by \r\n) of one command in RESP: the array header,
\* then for each argument its bulk-string header and the argument itself
RECURSIVE BulkLines(_)
BulkLines(args) ==
    IF args = <<>> THEN <<>>
    ELSE <<"$" \o ToString(Len(Head(args))), Head(args)>> \o BulkLines(Tail(args))

RespLines(cmd) == <<"*" \o ToString(Len(cmd))>> \o BulkLines(cmd)

\* the bytes of one read that holds the commands cmds, as lines
RECURSIVE ReadLines(_)
ReadLines(cmds) ==
    IF cmds = <<>> THEN <<>> ELSE RespLines(Head(cmds)) \o ReadLines(Tail(cmds))

\* cmd.startswith("*") or cmd.startswith("$")
StartsWithMark(cmd) ==
    \/ cmd \in {"*", "$"}
    \/ \E n \in 0..NumLimit : cmd \in {"*" \o ToString(n), "$" \o ToString(n)}

\* redis_parser(data): the lines of the read that start with neither * nor $
RedisParser(lines) == SelectSeq(lines, LAMBDA cmd : ~StartsWithMark(cmd))

\* the commands a client sends in one read, alone or pipelined
PipeCommands ==
    {<<"PING">>, <<"ECHO", "a">>, <<"LLEN", "k1">>, <<"RPUSH", "k1", "a">>}

Pipelines == {<<x>> : x \in PipeCommands} \cup {<<x, y>> : x, y \in PipeCommands}

\* data = await reader.read(1024); command_list = await redis_parser(data).
\* `sent` keeps the commands of the read that are not answered yet.
Read(c, cmds) ==
    /\ clients[c].pc = "idle"
    /\ clients[c].command_list = <<>>
    /\ clients' = [clients EXCEPT ![c].command_list = RedisParser(ReadLines(cmds)),
                                  ![c].sent = cmds]
    /\ last' = [NoOp EXCEPT !.op = "read", !.client = c,
                            !.id = RedisParser(ReadLines(cmds))]
    /\ UNCHANGED <<storage_dict, blocked_clients, futures, now, nextElem, fulfilLog>>

\* one round of `while i < command_list_len` in handle_server, up to the
\* drain of the reply; clients[c].command_list is command_list[i:]
Dispatch(c) ==
    LET cl == clients[c].command_list
        curr_command == Upper(cl[1])
        arg(j) == IF j <= Len(cl) THEN cl[j] ELSE ""
        next(n) == clients' = [clients EXCEPT ![c].command_list = DropFirst(cl, n),
                                              ![c].sent = IF @ = <<>> THEN <<>> ELSE Tail(@)]
        quiet == UNCHANGED <<storage_dict, blocked_clients, futures, fulfilLog>>
    IN  /\ clients[c].pc = "idle"
        /\ cl # <<>>
        /\ CASE curr_command = "PING" ->
                    /\ last' = [NoOp EXCEPT !.op = "ping", !.client = c, !.reply = "simple"]
                    /\ quiet
                    /\ next(1)
             [] curr_command = "ECHO" ->
                    /\ last' = [NoOp EXCEPT !.op = "echo", !.client = c,
                                            !.items = <<arg(2)>>, !.reply = "bulk"]
                    /\ quiet
                    /\ next(2)
             [] curr_command = "LLEN" ->
                    /\ last' = [NoOp EXCEPT !.op = "llen", !.client = c, !.key = arg(2),
                                            !.ret = IF storage_dict[arg(2)].kind = "list"
                                                    THEN Len(storage_dict[arg(2)].lst) ELSE 0,
                                            !.reply = "integer"]
                    /\ quiet
                    /\ next(2)
             [] curr_command = "RPUSH" ->
                    LET list_elements == SubSeq(cl, 3, Len(cl))
                    IN  /\ storage_dict[arg(2)].kind \in {"none", "list"}
                        /\ Len(storage_dict[arg(2)].lst) + Len(list_elements) <= MaxListLen
                        /\ Push(arg(2), list_elements, "rpush",
                                RPushList(Created(arg(2)).lst, list_elements))
                        /\ next(2 + Len(list_elements))
             [] OTHER ->
                    /\ last' = [NoOp EXCEPT !.op = "unknown", !.client = c,
                                            !.items = <<cl[1]>>, !.reply = "error"]
                    /\ quiet
                    /\ next(1)
        /\ UNCHANGED <<now, nextElem>>

(* Specification of the connection handler *)

NextPipeline ==
    \/ \E c \in Clients, cmds \in Pipelines : Read(c, cmds)
    \/ \E c \in Clients : Dispatch(c)
    \/ Delete("k1")

SpecPipeline == Init /\ [][NextPipeline]_vars

-----------------------------------------------------------------------------
(* Specification of LRANGE *)

\* the indices given to LRANGE: below -len, within the list, beyond its end
LRangeIdx == (0 - MaxListLen - 1)..(MaxListLen + 1)

NextLRange ==
    \/ \E n \in 1..MaxPush : RPush("k1", n)
    \/ \E n \in 1..MaxPush : LPop("k1", n)
    \/ \E start \in LRangeIdx, end \in LRangeIdx : LRange("k1", start, end)
    \/ Set("k1", "v", NoExpiry)
    \/ Delete("k1")

SpecLRange == Init /\ [][NextLRange]_vars

-----------------------------------------------------------------------------

(* Specification of the list commands without BLPOP timeouts *)

NextListOps ==
    \/ \E n \in 0..MaxPush : RPush("k1", n)
    \/ \E n \in 0..MaxPush : LPush("k1", n)
    \/ \E n \in 1..MaxPush : LPop("k1", n)
    \/ LRange("k1", 0, -1)
    \/ LLen("k1")
    \/ \E c \in Clients : Blpop(c, "k1", 0)
    \/ \E c \in Clients : BlpopWake(c)
    \/ \E c \in Clients : Disconnect(c)
    \/ Set("k1", "v", NoExpiry)
    \/ Delete("k1")

SpecListOps == Init /\ [][NextListOps]_vars

-----------------------------------------------------------------------------

(* Specification of BLPOP with timeouts *)

NextTimeout ==
    \/ RPush("k1", 1)
    \/ \E c \in Clients, t \in Timeouts : Blpop(c, "k1", t)
    \/ \E c \in Clients : BlpopWake(c)
    \/ \E c \in Clients : TimeoutFire(c)
    \/ \E c \in Clients : TimeoutHandle(c)
    \/ Tick

SpecTimeout == Init /\ [][NextTimeout]_vars

\* the event loop runs every ready callback and every due timer, and time
\* passes: a set future wakes its task, a due wait_for timer fires, the
\* TimeoutError is handled
FairTimeout ==
    /\ WF_vars(Tick)
    /\ \A c \in Clients :
           /\ WF_vars(BlpopWake(c))
           /\ WF_vars(TimeoutFire(c))
           /\ WF_vars(TimeoutHandle(c))

SpecTimeoutFair == SpecTimeout /\ FairTimeout

(* Specification of pushes onto queues with resolved waiters *)

NextResolved ==
    \/ \E n \in 1..MaxPush : RPush("k1", n)
    \/ \E n \in 1..MaxPush : LPush("k1", n)
    \/ \E c \in Clients, t \in Timeouts : Blpop(c, "k1", t)
    \/ \E c \in Clients : BlpopWake(c)
    \/ \E c \in Clients : TimeoutFire(c)
    \/ \E c \in Clients : TimeoutHandle(c)
    \/ \E c \in Clients : Disconnect(c)

SpecResolved == Init /\ [][NextResolved]_vars

(* Specification of lists with a deadline *)

NextListExpire ==
    \/ \E n \in 1..MaxPush : RPush("k1", n)
    \/ \E n \in 1..MaxPush : LPush("k1", n)
    \/ LPop("k1", 1)
    \/ \E c \in Clients : Blpop(c, "k1", 0)
    \/ \E c \in Clients : BlpopWake(c)
    \/ HandleExpire(<<"k1", "1">>)
    \/ Tick

SpecListExpire == Init /\ [][NextListExpire]_vars

(* Specification of SHUTDOWN with blocked clients *)

\* unblock_all_blocked_clients is a coroutine of DataStorage that
\* handle_server and main() never call; it is taken here as a call made on
\* the storage while the server runs
NextShutdown ==
    \/ ServerUp /\ RPush("k1", 1)
    \/ \E c \in Clients : ServerUp /\ Blpop(c, "k1", 0)
    \/ \E c \in Clients : ServerUp /\ BlpopWake(c)
    \/ ServerUp /\ UnblockAllBlockedClients
    \/ \E c \in Clients : Shutdown(c)
    \/ ServerUp /\ Tick

SpecShutdown == Init /\ [][NextShutdown]_vars

-----------------------------------------------------------------------------
(* Sets *)

MaxMembers == 2

\* members given to the set commands (one-character strings)
Members == {"a", "b"}

MemberLists == UNION {[1..n -> Members] : n \in 1..MaxMembers}

\* keys given to the set commands
SetKeys == {"s", "e"}

\* one operand, or two that may be the same key
KeyLists == {<<k>> : k \in SetKeys} \cup {<<j, k>> : j, k \in SetKeys}

\* OrderedSet.__contains__
Contains(m, x) == \E i \in 1..Len(m) : m[i] = x

\* OrderedSet.add
AddAlways(m, x) == Append(m, x)

Add(m, x) == IF Contains(m, x) THEN m ELSE Append(m, x)

\* OrderedSet.remove
RemoveFirstOnly(m, x) == IF m # <<>> /\ Head(m) = x THEN Tail(m) ELSE m

Remove(m, x) == SelectSeq(m, LAMBDA y : y # x)

\* OrderedSet.update
RECURSIVE Update(_, _)
Update(m, items) ==
    IF items = <<>> THEN m ELSE Update(Add(m, Head(items)), Tail(items))

\* OrderedSet.difference_update on containers that are not its own
RECURSIVE DifferenceUpdate(_, _)
DifferenceUpdate(m, items) ==
    IF items = <<>> THEN m ELSE DifferenceUpdate(Remove(m, Head(items)), Tail(items))

\* OrderedSet.intersection_update
IntersectionUpdate(m, items) == SelectSeq(m, LAMBDA y : Contains(items, y))

\* the containers that the stored sets refer to
Objects(sd) == {sd[k].obj : k \in {j \in Keys : sd[j].kind = "set"}}

\* OrderedSet(): containers that no stored set refers to
FreshObj(sd) ==
    CHOOSE n \in 1..(Cardinality(Keys) + 1) :
        /\ n \notin Objects(sd)
        /\ \A j \in 1..(n - 1) : j \in Objects(sd)

\* a change of the containers o, seen through every set that refers to them
WriteObj(sd, o, m) ==
    [k \in Keys |-> IF sd[k].kind = "set" /\ sd[k].obj = o
                    THEN [sd[k] EXCEPT !.mem = m] ELSE sd[k]]

\* sadd(key, members).  On a str or a list, value.update raises
\* AttributeError; on a stream's dict, dict.update raises ValueError for
\* one-character members.
SaddError(kind) ==
    CASE kind = "stream" -> "ValueError"
      [] kind \in {"str", "list"} -> "AttributeError"
      [] OTHER -> ""

Sadd(k, members) ==
    LET created == IF storage_dict[k].kind = "none"
                   THEN [storage_dict EXCEPT
                            ![k] = SetVal(<<>>, FreshObj(storage_dict), NoExpiry)]
                   ELSE storage_dict
        accessed_set == created[k]
        initial_size == Len(accessed_set.mem)
        updated == Update(accessed_set.mem, members)
    IN  /\ IF accessed_set.kind = "set"
           THEN /\ storage_dict' = WriteObj(created, accessed_set.obj, updated)
                /\ last' = [NoOp EXCEPT !.op = "sadd", !.key = k, !.items = members,
                                        !.ret = Len(updated) - initial_size,
                                        !.reply = "integer"]
           ELSE /\ storage_dict' = storage_dict
                /\ last' = [NoOp EXCEPT !.op = "sadd", !.key = k, !.items = members,
                                        !.err = SaddError(accessed_set.kind)]
        /\ UNCHANGED <<blocked_clients, futures, clients, now, nextElem, fulfilLog>>

\* scard(key) and _handle_scard
Scard(k) ==
    /\ last' = [NoOp EXCEPT !.op = "scard", !.key = k,
                            !.ret = IF storage_dict[k].kind = "set"
                                    THEN Len(storage_dict[k].mem) ELSE 0,
                            !.reply = "integer"]
    /\ UNCHANGED <<storage_dict, blocked_clients, futures, clients, now, nextElem,
                   fulfilLog>>

\* result of a set-algebra call: the keyspace after the call, the members and
\* the containers of the returned OrderedSet (obj 0: containers of its own),
\* and the exception raised ("" for none)
EmptyResult(sd) == [sd |-> sd, mem |-> <<>>, obj |-> 0, err |-> ""]

\* the loop of sdiff over keys[1:].  result_set = copy(first set) is a
\* shallow copy, so it has the containers of the stored first set.
\* difference_update(item.value) removes from these containers while it
\* iterates item.value: when item.value has the same containers and is not
\* empty, the first member is removed and the iteration raises RuntimeError
\* (dictionary changed size during iteration).
RECURSIVE SdiffLoop(_, _, _)
SdiffLoop(sd, first_key, keys) ==
    IF keys = <<>>
    THEN [sd |-> sd, mem |-> sd[first_key].mem, obj |-> sd[first_key].obj, err |-> ""]
    ELSE LET item == sd[Head(keys)]
             result_set == sd[first_key]
         IN  IF item.kind # "set"
             THEN SdiffLoop(sd, first_key, Tail(keys))
             ELSE IF item.obj = result_set.obj
             THEN IF item.mem = <<>>
                  THEN SdiffLoop(sd, first_key, Tail(keys))
                  ELSE [sd |-> WriteObj(sd, result_set.obj, Tail(result_set.mem)),
                        mem |-> <<>>, obj |-> 0, err |-> "RuntimeError"]
             ELSE SdiffLoop(WriteObj(sd, result_set.obj,
                                     DifferenceUpdate(result_set.mem, item.mem)),
                            first_key, Tail(keys))

\* sdiff(keys)
Sdiff(sd, keys) ==
    IF sd[keys[1]].kind # "set" THEN EmptyResult(sd)
    ELSE SdiffLoop(sd, keys[1], Tail(keys))

\* the loop of sinter over keys[1:], on the shallow copy of the first set
RECURSIVE SinterLoop(_, _, _)
SinterLoop(sd, first_key, keys) ==
    IF keys = <<>>
    THEN [sd |-> sd, mem |-> sd[first_key].mem, obj |-> sd[first_key].obj, err |-> ""]
    ELSE LET item == sd[Head(keys)]
             result_set == sd[first_key]
         IN  IF item.kind # "set"
             THEN EmptyResult(sd)
             ELSE SinterLoop(WriteObj(sd, result_set.obj,
                                      IntersectionUpdate(result_set.mem, item.mem)),
                             first_key, Tail(keys))

\* sinter(keys)
Sinter(sd, keys) ==
    IF sd[keys[1]].kind # "set" THEN EmptyResult(sd)
    ELSE SinterLoop(sd, keys[1], Tail(keys))

\* sunion(keys): a new OrderedSet updated with every operand that is a set
RECURSIVE SunionLoop(_, _, _)
SunionLoop(sd, result_set, keys) ==
    IF keys = <<>> THEN result_set
    ELSE SunionLoop(sd,
                    IF sd[Head(keys)].kind = "set"
                    THEN Update(result_set, sd[Head(keys)].mem) ELSE result_set,
                    Tail(keys))

Sunion(sd, keys) == [sd |-> sd, mem |-> SunionLoop(sd, <<>>, keys), obj |-> 0, err |-> ""]

\* the storage call of each set-algebra command
Algebra(cmd, sd, keys) ==
    CASE cmd = "sdiff" -> Sdiff(sd, keys)
      [] cmd = "sinter" -> Sinter(sd, keys)
      [] cmd = "sunion" -> Sunion(sd, keys)

AlgebraCmds == {"sdiff", "sinter", "sunion"}

\* _handle_sdiff, _handle_sinter, _handle_sunion: an exception other than
\* WrongTypeError unwinds the handler without a reply
HandleAlgebra(cmd, keys) ==
    LET r == Algebra(cmd, storage_dict, keys)
    IN  /\ storage_dict' = r.sd
        /\ last' = IF r.err # ""
                   THEN [NoOp EXCEPT !.op = cmd, !.items = keys, !.err = r.err]
                   ELSE [NoOp EXCEPT !.op = cmd, !.items = keys, !.out = r.mem,
                                     !.ret = r.obj, !.reply = "array"]
        /\ UNCHANGED <<blocked_clients, futures, clients, now, nextElem, fulfilLog>>

\* set_overwrite(key, members): the key refers to the OrderedSet it is given
SetOverwrite(sd, key, r) ==
    [sd EXCEPT ![key] = SetVal(r.mem, IF r.obj = 0 THEN FreshObj(sd) ELSE r.obj,
                               NoExpiry)]

\* _handle_sdiff_store, _handle_sinter_store, _handle_sunion_store
HandleAlgebraStore(cmd, destination, keys) ==
    LET r == Algebra(cmd, storage_dict, keys)
    IN  /\ IF r.err # ""
           THEN /\ storage_dict' = r.sd
                /\ last' = [NoOp EXCEPT !.op = cmd \o "store", !.key = destination,
                                        !.items = keys, !.err = r.err]
           ELSE /\ storage_dict' = SetOverwrite(r.sd, destination, r)
                /\ last' = [NoOp EXCEPT !.op = cmd \o "store", !.key = destination,
                                        !.items = keys, !.out = r.mem,
                                        !.ret = Len(r.mem), !.reply = "integer"]
        /\ UNCHANGED <<blocked_clients, futures, clients, now, nextElem, fulfilLog>>

\* smove(source, destination, member) and _handle_smove
SmoveResult(sd, source, destination, member) ==
    IF sd[source].kind # "set" \/ sd[destination].kind \notin {"none", "set"}
    THEN [sd |-> sd, moved |-> FALSE]
    ELSE IF Contains(sd[source].mem, member)
    THEN LET removed == WriteObj(sd, sd[source].obj, Remove(sd[source].mem, member))
             created == IF removed[destination].kind = "none"
                        THEN [removed EXCEPT
                                 ![destination] = SetVal(<<>>, FreshObj(removed), NoExpiry)]
                        ELSE removed
         IN  [sd |-> WriteObj(created, created[destination].obj,
                              Add(created[destination].mem, member)),
              moved |-> TRUE]
    ELSE [sd |-> sd, moved |-> FALSE]

Smove(source, destination, member) ==
    LET r == SmoveResult(storage_dict, source, destination, member)
    IN  /\ storage_dict' = r.sd
        /\ last' = [NoOp EXCEPT !.op = "smove", !.key = source, !.id = <<destination>>,
                                !.items = <<member>>,
                                !.ret = IF r.moved THEN 1 ELSE 0,
                                !.reply = "integer"]
        /\ UNCHANGED <<blocked_clients, futures, clients, now, nextElem, fulfilLog>>

\* srem(key, members); _handle_srem replies to WrongTypeError with the error
RECURSIVE RemoveAll(_, _)
RemoveAll(m, members) ==
    IF members = <<>> THEN m ELSE RemoveAll(Remove(m, Head(members)), Tail(members))

Srem(k, members) ==
    LET item == storage_dict[k]
        removed == RemoveAll(item.mem, members)
    IN  /\ IF item.kind = "none"
           THEN /\ storage_dict' = storage_dict
                /\ last' = [NoOp EXCEPT !.op = "srem", !.key = k, !.items = members,
                                        !.ret = 0, !.reply = "integer"]
           ELSE IF item.kind # "set"
           THEN /\ storage_dict' = storage_dict
                /\ last' = [NoOp EXCEPT !.op = "srem", !.key = k, !.items = members,
                                        !.err = "WRONGTYPE", !.reply = "error"]
           ELSE /\ storage_dict' = WriteObj(storage_dict, item.obj, removed)
                /\ last' = [NoOp EXCEPT !.op = "srem", !.key = k, !.items = members,
                                        !.ret = Len(item.mem) - Len(removed),
                                        !.reply = "integer"]
        /\ UNCHANGED <<blocked_clients, futures, clients, now, nextElem, fulfilLog>>

(* Specification of the set commands *)

NextSets ==
    \/ \E k \in SetKeys, members \in MemberLists : Sadd(k, members)
    \/ \E k \in SetKeys : Scard(k)
    \/ \E cmd \in AlgebraCmds, keys \in KeyLists : HandleAlgebra(cmd, keys)
    \/ \E cmd \in AlgebraCmds, d \in SetKeys, keys \in KeyLists :
           HandleAlgebraStore(cmd, d, keys)
    \/ \E source \in SetKeys, destination \in SetKeys, member \in Members :
           Smove(source, destination, member)
    \/ \E k \in SetKeys, members \in MemberLists : Srem(k, members)
    \/ Set("e", "v", NoExpiry)
    \/ Delete("e")

SpecSets == Init /\ [][NextSets]_vars

-----------------------------------------------------------------------------
(* Specification of commands on a key of any variant *)

NextVariants ==
    \/ Set("e", "v", NoExpiry)
    \/ Delete("e")
    \/ \E n \in 0..1 : RPush("e", n)
    \/ \E n \in 0..1 : LPush("e", n)
    \/ LPop("e", 1)
    \/ LLen("e")
    \/ \E members \in MemberLists : Sadd("e", members)
    \/ Scard("e")
    \/ \E members \in MemberLists : Srem("e", members)
    \/ XAdd("e", <<"1", "*">>, "a")

SpecVariants == Init /\ [][NextVariants]_vars

-----------------------------------------------------------------------------

(* Properties of the blocked-waiter registry *)

FutIds == 1..Len(futures)

\* position of future f in the order in which results were set (0: never set)
LogPos(f) ==
    IF \E i \in 1..Len(fulfilLog) : fulfilLog[i] = f
    THEN CHOOSE i \in 1..Len(fulfilLog) : fulfilLog[i] = f
    ELSE 0

\* the waiters of queue q whose future is pending, earliest arrival first
PendingWaiters(q, futs) ==
    LET pend == SelectSeq(q, LAMBDA w : futs[w.fut].state = "pending")
    IN  [i \in 1..Len(pend) |-> pend[i].fut]

IsPush(l) == l.op \in {"rpush", "lpush"}

\* the list right after the push of `last`, before the hand-off
PostPush(entry, l) ==
    IF l.op = "rpush" THEN entry.lst \o l.items ELSE Reverse(l.items) \o entry.lst

\* C1: no list element is delivered to more than one blocked BLPOP waiter
\* (pushed elements are distinct, so two fulfilled waiters never hold the
\* same element), and a push fulfils as many waiters as its hand-off removed
\* elements from the list.
C1_OneWaiterPerElement ==
    /\ \A f, g \in FutIds :
          (f # g /\ futures[f].state = "result" /\ futures[g].state = "result")
              => futures[f].item # futures[g].item
    /\ (IsPush(last) /\ last.err = "")
          => Len(last.out) = last.ret - Len(storage_dict[last.key].lst)

\* C2: a push on key K with k pending waiters and n elements after the push
\* fulfils exactly min(k, n) waiters, the i-th earliest waiter receives the
\* i-th element from the head, the other waiters stay pending in K's queue,
\* and the list keeps its last n - min(k, n) elements.
C2_HandOff ==
    [][IsPush(last') =>
        LET K == last'.key
            w == PendingWaiters(blocked_clients[K], futures)
            L == PostPush(storage_dict[K], last')
            m == Min(Len(w), Len(L))
        IN  /\ \A i \in 1..m : /\ futures'[w[i]].state = "result"
                               /\ futures'[w[i]].item = L[i]
            /\ \A i \in (m + 1)..Len(w) :
                   /\ futures'[w[i]].state = "pending"
                   /\ \E j \in 1..Len(blocked_clients'[K]) : blocked_clients'[K][j].fut = w[i]
            /\ storage_dict'[K].lst = SubSeq(L, m + 1, Len(L))]_vars

\* C3: of two waiters blocked on the same key, the one that arrived later is
\* never fulfilled while the earlier one is still pending, and never has its
\* result set before the earlier one's.
C3_EarliestFirst ==
    \A f, g \in FutIds :
        (/\ futures[f].key = futures[g].key
         /\ futures[f].ts < futures[g].ts
         /\ futures[g].state = "result")
            => /\ futures[f].state # "pending"
               /\ futures[f].state = "result" => LogPos(f) < LogPos(g)

-----------------------------------------------------------------------------
(* Properties of the streams *)

\* (ms, seq) of a stored entry ID
IdMs(id) == IntOf(id[1])

IdSeq(id) == IntOf(id[2])

\* (m1, s1) < (m2, s2)
PairLT(m1, s1, m2, s2) == m1 < m2 \/ (m1 = m2 /\ s1 < s2)

PairLE(m1, s1, m2, s2) == m1 < m2 \/ (m1 = m2 /\ s1 <= s2)

IsExplicitId(id) == Len(id) = 2 /\ IsIntStr(id[1]) /\ IsIntStr(id[2])

IsPartialId(id) == Len(id) = 2 /\ IsIntStr(id[1]) /\ id[2] = "*"

HasEntries(entry) == entry.kind = "stream" /\ entry.strm # <<>>

LastId(entry) == entry.strm[Len(entry.strm)].id

\* C4: the entries of every stream are in strictly increasing (ms, seq)
\* order of their IDs.
C4_StreamIdsIncrease ==
    \A k \in Keys :
        storage_dict[k].kind = "stream" =>
            \A i \in 1..(Len(storage_dict[k].strm) - 1) :
                PairLT(IdMs(storage_dict[k].strm[i].id), IdSeq(storage_dict[k].strm[i].id),
                       IdMs(storage_dict[k].strm[i + 1].id), IdSeq(storage_dict[k].strm[i + 1].id))

\* C7: XADD with an explicit ID succeeds exactly when the ID is not 0-0 and
\* is greater than the stream's last ID (any ID but 0-0 on an absent
\* stream); 0-0 is rejected with the 0-0 error, an ID not greater than the
\* top item with the top-item error, and a rejected XADD leaves the keyspace
\* unchanged.
C7_ExplicitXadd ==
    [][(last'.op = "xadd" /\ IsExplicitId(last'.id)) =>
        LET e == storage_dict[last'.key]
            ms == IntOf(last'.id[1])
            seq == IntOf(last'.id[2])
            zero == ms = 0 /\ seq = 0
            notabove == HasEntries(e) /\ PairLE(ms, seq, IdMs(LastId(e)), IdSeq(LastId(e)))
        IN  /\ (last'.err = "") <=> (~zero /\ ~notabove)
            /\ zero => last'.err = ErrZeroZero
            /\ (~zero /\ notabove) => last'.err = ErrTopItem
            /\ last'.err # "" => storage_dict' = storage_dict
            /\ last'.err = "" =>
                   \E i \in 1..Len(storage_dict'[last'.key].strm) :
                       storage_dict'[last'.key].strm[i] = [id |-> last'.id, fv |-> last'.items[1]]]_vars

C7_Witness ==
    /\ last.op = "xadd"
    /\ IsExplicitId(last.id)
    /\ last.err = ErrTopItem
    /\ HasEntries(storage_dict[last.key])
    /\ LastId(storage_dict[last.key]) = last.id

\* C8: XADD <ms>-* on a stream whose last ID has a larger ms is rejected
\* and leaves the stream unchanged.
C8_PartialBelowRejected ==
    [][(/\ last'.op = "xadd"
        /\ IsPartialId(last'.id)
        /\ HasEntries(storage_dict[last'.key])
        /\ IntOf(last'.id[1]) < IdMs(LastId(storage_dict[last'.key])))
            => (last'.err # "" /\ storage_dict' = storage_dict)]_vars

\* C9: an accepted XADD <ms>-* returns and stores the ID ms-seq with
\* seq = ls + 1 when the last ID is (ms, ls), and otherwise 1 when ms = 0 and
\* 0 when ms > 0.
C9_PartialSeq ==
    [][(last'.op = "xadd" /\ IsPartialId(last'.id) /\ last'.err = "") =>
        LET e == storage_dict[last'.key]
            ms == IntOf(last'.id[1])
            seq == IF HasEntries(e) /\ IdMs(LastId(e)) = ms THEN IdSeq(LastId(e)) + 1
                   ELSE IF ms = 0 THEN 1 ELSE 0
        IN  /\ last'.out = <<ToString(ms), ToString(seq)>>
            /\ \E i \in 1..Len(storage_dict'[last'.key].strm) :
                   storage_dict'[last'.key].strm[i] = [id |-> last'.out, fv |-> last'.items[1]]]_vars

C9_Witness ==
    /\ last.op = "xadd"
    /\ last.id = <<"0", "*">>
    /\ last.out = <<"0", "2">>
    /\ Len(storage_dict[last.key].strm) = 2

\* the entries of the stream with start <= id <= end: "-" below and "+" above
\* every ID, a start <ms> meaning (ms, 0), an end <ms> covering every seq
InRange(id, start, end) ==
    /\ \/ start = <<"", "">>
       \/ /\ start # <<"+">>
          /\ PairLE(IntOf(start[1]), IF Len(start) = 2 THEN IntOf(start[2]) ELSE 0,
                    IdMs(id), IdSeq(id))
    /\ \/ end = <<"+">>
       \/ /\ end # <<"", "">>
          /\ IF Len(end) = 2
             THEN PairLE(IdMs(id), IdSeq(id), IntOf(end[1]), IntOf(end[2]))
             ELSE IdMs(id) <= IntOf(end[1])

IsRangeId(id) ==
    \/ id \in {<<"", "">>, <<"+">>}
    \/ Len(id) = 1 /\ IsIntStr(id[1])
    \/ IsExplicitId(id)

-----------------------------------------------------------------------------
(* Properties of expiry *)

HasDeadline(entry) == entry.kind # "none" /\ entry.exp # NoExpiry

\* the operation recorded in l reported its key as absent
ReportsAbsent(l) ==
    \/ l.op = "get" /\ l.err = "None"
    \/ l.op = "exists" /\ l.ret = 0
    \/ l.op = "key_type" /\ l.items = <<"none">>
    \/ l.op = "llen" /\ l.ret = 0

\* C5: an access (GET, EXISTS, TYPE, LLEN, ...) to a key made after its
\* expiry deadline reports the key as absent and removes its entry.
C5_AccessExpires ==
    [][(/\ last'.op \in {"get", "exists", "key_type", "llen"}
        /\ HasDeadline(storage_dict[last'.key])
        /\ now > storage_dict[last'.key].exp)
            => (ReportsAbsent(last') /\ storage_dict'[last'.key] = Absent)]_vars

\* C6: get on a key with deadline d returns the stored value whenever
\* now <= d; with now > d it returns none and deletes the entry, and exists
\* on a deleted entry is false.
C6_GetExpiry ==
    /\ [][(last'.op = "get" /\ HasDeadline(storage_dict[last'.key])) =>
            LET item == storage_dict[last'.key]
            IN  IF now <= item.exp
                THEN /\ last'.err = ""
                     /\ last'.items = <<item.str>>
                     /\ storage_dict' = storage_dict
                ELSE /\ last'.err = "None"
                     /\ storage_dict'[last'.key] = Absent]_vars
    /\ []((last.op = "exists" /\ storage_dict[last.key] = Absent) => last.ret = 0)

C6_Witness ==
    /\ last.op = "get"
    /\ last.err = "None"
    /\ last.out = <<"expired">>
    /\ storage_dict[last.key] = Absent

-----------------------------------------------------------------------------
(* Properties of XRANGE's arguments *)

\* C11: XRANGE on an existing non-empty stream with a start or end bound that
\* is not "-", "+", <ms> or <ms>-<seq> fails with the invalid-stream-ID
\* error, whatever the stream holds and whatever the other bound is.
C11_InvalidBoundRejected ==
    (/\ last.op = "xrange"
     /\ last.err # "count"
     /\ HasEntries(storage_dict[last.key])
     /\ (~IsRangeId(last.id) \/ ~IsRangeId(last.id2)))
        => last.err = ErrInvalidId

\* C12: XRANGE with COUNT n, n <= 0, sends the client a null bulk string and
\* does not query the stream.
C12_CountNullBulk ==
    (last.op = "xrange" /\ last.items # <<>> /\ last.items[1] <= 0)
        => (last.reply = "null bulk" /\ last.out = <<>>)

-----------------------------------------------------------------------------
(* Properties of strings and generic commands *)

\* C13: after set(k, v), whatever k held before, get(k) returns v and the
\* type of k is string; a following delete(k) returns true, after which
\* get(k) returns none and exists(k) is false; delete on an absent key
\* returns false and changes nothing.
C13_SetGetDelete ==
    /\ [][(last'.op = "set" /\ last'.ret = NoExpiry) =>
            storage_dict' = [storage_dict EXCEPT ![last'.key] = StrVal(last'.items[1], NoExpiry)]]_vars
    /\ [][(last.op = "set" /\ last.ret = NoExpiry /\ last'.key = last.key) =>
            /\ last'.op = "get" => (last'.err = "" /\ last'.items = last.items)
            /\ last'.op = "key_type" => last'.items = <<"str">>
            /\ last'.op = "delete" => (last'.ret = 1 /\ storage_dict'[last.key] = Absent)]_vars
    /\ [][(last.op = "delete" /\ last.ret = 1 /\ last'.key = last.key) =>
            /\ last'.op = "get" => last'.err = "None"
            /\ last'.op = "exists" => last'.ret = 0]_vars
    /\ [][(last'.op = "delete" /\ storage_dict[last'.key] = Absent) =>
            (last'.ret = 0 /\ storage_dict' = storage_dict)]_vars

C13_Witness ==
    /\ last.op = "set"
    /\ last.ret = NoExpiry
    /\ last.out = <<"list">>
    /\ storage_dict[last.key] = StrVal(last.items[1], NoExpiry)

\* C14: a SET command carrying only a key and a value stores the value as
\* persistent, whatever the key and the value are, and discards any expiry
\* the key had before.
C14_SetPersistent ==
    [][(last'.op = "set" /\ Len(last'.id) = 2) =>
        /\ storage_dict'[last'.id[1]] = StrVal(last'.id[2], NoExpiry)
        /\ last'.reply = "simple"]_vars

-----------------------------------------------------------------------------
(* Properties of the list commands *)

\* the index i of a list of length n: i + n when negative, 0 when still
\* negative
EffectiveIndex(i, n) == IF i >= 0 THEN i ELSE IF i + n < 0 THEN 0 ELSE i + n

\* the elements effective_start..effective_end of the list
LRangeReference(l, start, end) ==
    LET n == Len(l)
        s == EffectiveIndex(start, n)
        e == Min(EffectiveIndex(end, n), n - 1)
    IN  IF s >= n \/ s > e THEN <<>> ELSE SubSeq(l, s + 1, e + 1)

\* C18: lrange(key, start, end) returns the elements at the effective
\* indices start..end (negative indices count from the end and are clamped
\* to 0, the end is clamped to the last element), the empty list when the
\* range is empty or the key holds no list, and never modifies the list.
C18_LRange ==
    /\ [](last.op = "lrange" =>
            last.out = IF storage_dict[last.key].kind = "list"
                       THEN LRangeReference(storage_dict[last.key].lst, last.count, last.ret)
                       ELSE <<>>)
    /\ [][last'.op = "lrange" => storage_dict' = storage_dict]_vars

\* no waiter of the key's queue is pending
NoneBlocked(k) == PendingWaiters(blocked_clients[k], futures) = <<>>

\* the key is absent or holds a list
ListOrAbsent(k) == storage_dict[k].kind \in {"none", "list"}

\* C15: with no client blocked on the key, rpush(key, args) on a list with
\* prior contents P (empty when the key is absent) leaves the list equal to
\* P followed by args and returns len(P) + len(args); LRANGE 0 -1 right
\* afterwards returns that list.
C15_RPush ==
    /\ [][(last'.op = "rpush" /\ ListOrAbsent(last'.key) /\ NoneBlocked(last'.key)) =>
            LET P == storage_dict[last'.key].lst
            IN  /\ last'.err = ""
                /\ storage_dict'[last'.key].kind = "list"
                /\ storage_dict'[last'.key].lst = P \o last'.items
                /\ last'.ret = Len(P) + Len(last'.items)]_vars
    /\ [][(/\ last.op = "rpush" /\ last.err = "" /\ last.out = <<>>
           /\ last'.op = "lrange" /\ last'.key = last.key
           /\ last'.count = 0 /\ last'.ret = -1)
            => last'.out = storage_dict[last.key].lst]_vars

C15_Witness ==
    /\ last.op = "rpush"
    /\ last.items = <<2, 3>>
    /\ last.ret = 3
    /\ storage_dict[last.key].lst = <<1, 2, 3>>
    /\ blocked_clients[last.key] = <<>>
    /\ futures # <<>>

\* C16: with no client blocked on the key, lpush(key, args) on a list with
\* prior contents P leaves the list equal to reverse(args) followed by P and
\* returns len(P) + len(args).
C16_LPush ==
    [][(last'.op = "lpush" /\ ListOrAbsent(last'.key) /\ NoneBlocked(last'.key)) =>
        LET P == storage_dict[last'.key].lst
        IN  /\ last'.err = ""
            /\ storage_dict'[last'.key].kind = "list"
            /\ storage_dict'[last'.key].lst = Reverse(last'.items) \o P
            /\ last'.ret = Len(P) + Len(last'.items)]_vars

C16_Witness ==
    /\ last.op = "lpush"
    /\ last.items = <<2, 3>>
    /\ last.ret = 3
    /\ storage_dict[last.key].lst = <<3, 2, 1>>

\* C17: RPUSH and LPUSH reply with the list length measured after the push
\* and before the hand-off: with waiters pending on the key the reply is
\* len(prior) + len(args), although handed-off elements have left the list.
C17_PushReplyLength ==
    [][(IsPush(last') /\ ListOrAbsent(last'.key) /\ ~NoneBlocked(last'.key)) =>
        /\ last'.reply = "integer"
        /\ last'.ret = Len(storage_dict[last'.key].lst) + Len(last'.items)]_vars

C20_BlpopImmediate ==
    [][(/\ last'.op \in {"blpop", "blpop_block"}
        /\ storage_dict[last'.key].kind = "list"
        /\ storage_dict[last'.key].lst # <<>>) =>
            /\ last'.op = "blpop"
            /\ last'.reply = "array"
            /\ last'.out = <<Head(storage_dict[last'.key].lst)>>
            /\ storage_dict'[last'.key].lst = Tail(storage_dict[last'.key].lst)
            /\ blocked_clients' = blocked_clients
            /\ futures' = futures
            /\ clients' = clients]_vars

C20_Witness ==
    /\ last.op = "blpop"
    /\ last.out = <<1>>
    /\ storage_dict[last.key].lst = <<2>>
    /\ blocked_clients[last.key] = <<>>

-----------------------------------------------------------------------------
(* Properties of BLPOP timeouts *)

\* future f is queued for key k
Queued(k, f) == \E i \in 1..Len(blocked_clients[k]) : blocked_clients[k][i].fut = f

\* future f was cancelled by its timeout and blpop has returned null for it
TimedOut(f) ==
    /\ futures[f].state = "cancelled"
    /\ \A c \in Clients : clients[c].fut # f

\* C21: a BLPOP with timeout t > 0 that is handed no element returns null
\* (not before t has passed), and from then on its waiter is not in the key's
\* queue: a later push delivers nothing to it and the pushed elements stay in
\* the list.  A BLPOP with timeout 0 never times out.
C21_BlpopTimeout ==
    /\ \A c \in Clients :
           (clients[c].pc = "blocked" /\ futures[clients[c].fut].timeout > 0)
               ~> (clients[c].pc \in {"idle", "gone"})
    /\ [][last'.op = "blpop_timeout" =>
            LET f == last'.ret
            IN  /\ last'.err = "None"
                /\ last'.reply = "null bulk"
                /\ futures[f].state = "cancelled"
                /\ futures[f].timeout > 0
                /\ now >= futures[f].ts + futures[f].timeout
                /\ \A k \in Keys : \A i \in 1..Len(blocked_clients'[k]) :
                       blocked_clients'[k][i].fut # f]_vars
    /\ [](\A f \in FutIds : TimedOut(f) => \A k \in Keys : ~Queued(k, f))
    /\ [][\A f \in FutIds : futures[f].state = "cancelled" => futures'[f] = futures[f]]_vars
    /\ [][(IsPush(last') /\ NoneBlocked(last'.key)) =>
            /\ last'.out = <<>>
            /\ storage_dict'[last'.key].lst = PostPush(storage_dict[last'.key], last')]_vars
    /\ [][last'.op \in {"timeout_fire", "blpop_timeout"} => futures[last'.ret].timeout > 0]_vars

C21_Witness ==
    /\ last.op = "rpush"
    /\ last.items # <<>>
    /\ last.out = <<>>
    /\ storage_dict[last.key].lst = last.items
    /\ \E f \in FutIds : TimedOut(f) /\ futures[f].key = last.key
    /\ \A f \in FutIds : futures[f].state = "cancelled"

-----------------------------------------------------------------------------

(* Properties of SHUTDOWN *)

\* C22: on SHUTDOWN every client blocked in BLPOP is woken with a null
\* result and is sent a null bulk string; after the SHUTDOWN the registry is
\* empty and no future is pending.  A blocked client therefore leaves its
\* BLPOP only with a reply: the popped element, or null bulk when the
\* result is None.
C22_ShutdownWakesWaiters ==
    /\ [][last'.op = "shutdown" =>
             /\ \A k \in Keys : blocked_clients'[k] = <<>>
             /\ \A f \in 1..Len(futures') : futures'[f].state # "pending"]_vars
    /\ [][\A c \in Clients :
             clients[c].pc = "blocked" /\ clients'[c].pc # "blocked" =>
                 /\ last'.client = c
                 /\ last'.reply \in {"array", "null bulk"}
                 /\ futures[clients[c].fut].state = "result"
                 /\ futures[clients[c].fut].item = NoneResult =>
                        last'.reply = "null bulk"]_vars

-----------------------------------------------------------------------------

(* Properties of the set commands *)

SetOf(m) == {m[i] : i \in 1..Len(m)}

\* the members stored at a key; an absent key is the empty set
MembersAt(sd, k) == IF sd[k].kind = "set" THEN sd[k].mem ELSE <<>>

SetOrAbsent(sd, k) == sd[k].kind \in {"none", "set"}

\* a sequence without its later duplicates
Dedup(seq) ==
    LET F[i \in 0..Len(seq)] ==
            IF i = 0 THEN <<>>
            ELSE IF \E j \in 1..(i - 1) : seq[j] = seq[i] THEN F[i - 1]
            ELSE Append(F[i - 1], seq[i])
    IN  F[Len(seq)]

\* C23: sadd on an absent key or a set returns the number of distinct members
\* that were not in the set, the set afterwards is the old set followed by
\* those members in argument order, and the same SADD repeated at once
\* returns 0 and changes nothing.
C23_Sadd ==
    /\ [][last'.op = "sadd" /\ SetOrAbsent(storage_dict, last'.key) =>
             LET old == MembersAt(storage_dict, last'.key)
                 items == last'.items
                 new == Dedup(SelectSeq(items, LAMBDA x : ~Contains(old, x)))
             IN  /\ last'.reply = "integer"
                 /\ last'.ret = Len(new)
                 /\ last'.ret = Cardinality(SetOf(items) \ SetOf(old))
                 /\ storage_dict'[last'.key].kind = "set"
                 /\ storage_dict'[last'.key].mem = old \o new]_vars
    /\ [][/\ last.op = "sadd" /\ last.reply = "integer"
          /\ last'.op = "sadd" /\ last'.key = last.key /\ last'.items = last.items
          => last'.ret = 0 /\ storage_dict' = storage_dict]_vars

\* a member given twice in one SADD to a set that holds another member
C23_Witness ==
    /\ last.op = "sadd"
    /\ last.items = <<"b", "b">>
    /\ last.ret = 1
    /\ storage_dict[last.key].mem = <<"a", "b">>

RECURSIVE Concat(_, _)
Concat(sd, keys) ==
    IF keys = <<>> THEN <<>> ELSE MembersAt(sd, Head(keys)) \o Concat(sd, Tail(keys))

RefDiff(sd, keys) ==
    SelectSeq(MembersAt(sd, keys[1]),
              LAMBDA x : \A i \in 2..Len(keys) : ~Contains(MembersAt(sd, keys[i]), x))

RefInter(sd, keys) ==
    SelectSeq(MembersAt(sd, keys[1]),
              LAMBDA x : \A i \in 2..Len(keys) : Contains(MembersAt(sd, keys[i]), x))

RefUnion(sd, keys) == Dedup(Concat(sd, keys))

RefAlgebra(cmd, sd, keys) ==
    CASE cmd = "sdiff" -> RefDiff(sd, keys)
      [] cmd = "sinter" -> RefInter(sd, keys)
      [] cmd = "sunion" -> RefUnion(sd, keys)

AllSetOrAbsent(sd, keys) == \A i \in 1..Len(keys) : SetOrAbsent(sd, keys[i])

\* C24: on keys that are absent or hold sets, sdiff returns the members of
\* the first set that are in no later set and sinter those that are in
\* every later set, in the first operand's insertion order; sunion returns
\* the members of all operands in order of first occurrence.
C24_SetAlgebra ==
    [][last'.op \in AlgebraCmds /\ AllSetOrAbsent(storage_dict, last'.items) =>
          /\ last'.err = ""
          /\ last'.reply = "array"
          /\ last'.out = RefAlgebra(last'.op, storage_dict, last'.items)]_vars

\* C25: SDIFF, SINTER and SUNION leave the value of every key as it was, and
\* the returned set has containers of its own.
C25_AlgebraReadOnly ==
    [][last'.op \in AlgebraCmds =>
          /\ storage_dict' = storage_dict
          /\ last'.reply = "array" => last'.ret = 0]_vars

StoreOps == {"sdiffstore", "sinterstore", "sunionstore"}

StoreCmd(op) ==
    CASE op = "sdiffstore" -> "sdiff"
      [] op = "sinterstore" -> "sinter"
      [] op = "sunionstore" -> "sunion"

\* C26: SDIFFSTORE, SINTERSTORE and SUNIONSTORE dest k1..kn, on keys that are
\* absent or hold sets, store at dest the set of the read-only command,
\* whatever dest held, and reply with its cardinality, which a SCARD dest
\* that follows also reports.
C26_AlgebraStore ==
    /\ [][last'.op \in StoreOps /\ AllSetOrAbsent(storage_dict, last'.items) =>
             LET r == RefAlgebra(StoreCmd(last'.op), storage_dict, last'.items)
             IN  /\ storage_dict'[last'.key].kind = "set"
                 /\ storage_dict'[last'.key].mem = r
                 /\ last'.reply = "integer"
                 /\ last'.ret = Len(r)]_vars
    /\ [][/\ last.op \in StoreOps /\ last.reply = "integer"
          /\ last'.op = "scard" /\ last'.key = last.key
          => last'.ret = last.ret]_vars

\* C27: smove(src, dst, m) with src a set and dst a set or absent: when m is
\* in src it leaves src (unless src = dst), is in dst afterwards, no other
\* member and no other key changes and the result is true; otherwise
\* nothing changes and the result is false.
C27_Smove ==
    [][/\ last'.op = "smove"
       /\ storage_dict[last'.key].kind = "set"
       /\ SetOrAbsent(storage_dict, last'.id[1])
       => LET src == last'.key
              dst == last'.id[1]
              m == last'.items[1]
              S == SetOf(storage_dict[src].mem)
              D == SetOf(MembersAt(storage_dict, dst))
          IN  IF m \in S
              THEN /\ last'.ret = 1
                   /\ storage_dict'[dst].kind = "set"
                   /\ SetOf(storage_dict'[src].mem) = IF src = dst THEN S ELSE S \ {m}
                   /\ SetOf(storage_dict'[dst].mem) = D \cup {m}
                   /\ \A k \in Keys \ {src, dst} : storage_dict'[k] = storage_dict[k]
              ELSE /\ last'.ret = 0
                   /\ storage_dict' = storage_dict]_vars

\* C28: SCARD on a key that holds a non-set value, SDIFF and SINTER whose
\* first key holds one, and SMOVE whose source or existing destination holds
\* one fail with a WRONGTYPE error and leave the keyspace unchanged.
C28_WrongType ==
    [][\/ last'.op = "scard" /\ ~SetOrAbsent(storage_dict, last'.key)
       \/ last'.op \in {"sdiff", "sinter"} /\ ~SetOrAbsent(storage_dict, last'.items[1])
       \/ /\ last'.op = "smove"
          /\ \/ ~SetOrAbsent(storage_dict, last'.key)
             \/ ~SetOrAbsent(storage_dict, last'.id[1])
       => /\ last'.reply = "error"
          /\ last'.err = "WRONGTYPE"
          /\ storage_dict' = storage_dict]_vars

\* C29: srem removes every listed member that is present, ignores the absent
\* ones and returns the number removed; on a missing key it returns 0 and
\* on a non-set value it fails with WRONGTYPE, both without any change.
C29_Srem ==
    [][last'.op = "srem" =>
          LET e == storage_dict[last'.key]
              items == last'.items
          IN  CASE e.kind = "none" ->
                       /\ last'.ret = 0 /\ last'.reply = "integer"
                       /\ storage_dict' = storage_dict
                [] e.kind = "set" ->
                       /\ storage_dict'[last'.key].kind = "set"
                       /\ storage_dict'[last'.key].mem =
                              SelectSeq(e.mem, LAMBDA x : x \notin SetOf(items))
                       /\ last'.ret = Cardinality(SetOf(e.mem) \cap SetOf(items))
                       /\ last'.reply = "integer"
                [] OTHER ->
                       /\ last'.reply = "error" /\ last'.err = "WRONGTYPE"
                       /\ storage_dict' = storage_dict]_vars

\* an SREM of a present and an absent member, and one on a string
C29_Witness ==
    /\ last.op = "srem"
    /\ last.items = <<"b", "a">>
    /\ last.ret = 1
    /\ storage_dict[last.key].kind = "set"
    /\ storage_dict[last.key].mem = <<>>

-----------------------------------------------------------------------------

(* Properties of EXPIRE *)

ExpireFlags == {"NX", "XX", "GT", "LT"}

\* C30: EXPIRE key seconds [NX|XX|GT|LT] on an existing key sets the deadline
\* to now + seconds and replies 1 exactly when no flag is given, or NX and
\* the key is persistent, or XX and it has a deadline, or GT and it has a
\* deadline smaller than the new one, or LT and it is persistent or has a
\* greater deadline; otherwise it replies 0 and leaves the deadline; on a
\* missing key it replies 0.
C30_Expire ==
    [][/\ last'.op = "expire"
       /\ Len(last'.id) \in {2, 3}
       /\ IsIntStr(last'.id[2])
       /\ Len(last'.id) = 3 => Upper(last'.id[3]) \in ExpireFlags
       => LET key == last'.key
              item == storage_dict[key]
              missing == item.kind = "none" \/ GetExpired(item, now)
              flag == IF Len(last'.id) = 3 THEN Upper(last'.id[3]) ELSE ""
              new == now + 1000 * IntOf(last'.id[2])
              persistent == item.exp = NoExpiry
              sets == \/ flag = ""
                      \/ flag = "NX" /\ persistent
                      \/ flag = "XX" /\ ~persistent
                      \/ flag = "GT" /\ ~persistent /\ item.exp < new
                      \/ flag = "LT" /\ (persistent \/ item.exp > new)
          IN  /\ last'.reply = "integer"
              /\ IF missing
                 THEN last'.ret = 0 /\ storage_dict'[key].kind = "none"
                 ELSE IF sets
                 THEN last'.ret = 1 /\ storage_dict'[key] = [item EXCEPT !.exp = new]
                 ELSE last'.ret = 0 /\ storage_dict'[key] = item]_vars

-----------------------------------------------------------------------------
(* Properties of INCR *)

C39_IncrAtomic ==
    \A c \in Clients :
        clients[c].pc = "incr_set" =>
            /\ \A d \in Clients \ {c} : clients[d].pc # "incr_set"
            /\ clients[c].fut = IF storage_dict["e"].kind = "str"
                                THEN IntOf(storage_dict["e"].str) + 1
                                ELSE 1

\* the INCR of c2 has read the key after an INCR of c1 stored "1"
C39_Witness ==
    /\ clients["c2"].pc = "incr_set"
    /\ clients["c2"].fut = 2
    /\ clients["c1"].pc = "idle"
    /\ storage_dict["e"] = StrVal("1", NoExpiry)
    /\ last.op = "incr_get"
    /\ last.client = "c2"

-----------------------------------------------------------------------------
(* Properties of the connection handler *)

\* the record a command leaves in `last` when it is dispatched with exactly
\* its own arguments
IsDispatchOf(l, cmd) ==
    CASE cmd[1] = "PING" -> l.op = "ping"
      [] cmd[1] = "ECHO" -> l.op = "echo" /\ l.items = Tail(cmd)
      [] cmd[1] = "LLEN" -> l.op = "llen" /\ l.key = cmd[2]
      [] cmd[1] = "RPUSH" -> l.op = "rpush" /\ l.key = cmd[2] /\ l.items = SubSeq(cmd, 3, Len(cmd))
      [] OTHER -> FALSE

\* C32: the commands of one read are dispatched one by one in arrival order,
\* each with exactly its own arguments and a reply of its own: every round of
\* the dispatch loop handles the first command not answered yet, and the loop
\* ends when, and only when, every command of the read is answered.
C32_Pipelining ==
    [][\A c \in Clients :
          (last'.op # "read" /\ clients'[c].command_list # clients[c].command_list) =>
              /\ clients[c].sent # <<>>
              /\ IsDispatchOf(last', Head(clients[c].sent))
              /\ last'.reply # ""
              /\ (clients'[c].command_list = <<>>) <=> (clients'[c].sent = <<>>)]_vars

-----------------------------------------------------------------------------
(* Properties of commands on a key of the wrong variant *)

\* the variant the command needs
VariantOf(op) ==
    CASE op \in {"rpush", "lpush", "lpop", "llen"} -> "list"
      [] op \in {"sadd", "scard", "srem"} -> "set"
      [] op \in {"xadd"} -> "stream"
      [] OTHER -> ""

\* C33: a command applied to a key that holds a value of another variant is
\* answered with its empty result or a simple error frame (no exception ends
\* the connection's task) and leaves the keyspace unchanged.
C33_WrongVariant ==
    [][(/\ VariantOf(last'.op) # ""
        /\ storage_dict[last'.key].kind \notin {"none", VariantOf(last'.op)}) =>
           /\ \/ last'.reply = "error"
              \/ last'.reply = "integer" /\ last'.ret = 0
              \/ last'.reply = "null bulk"
           /\ storage_dict' = storage_dict]_vars

-----------------------------------------------------------------------------
(* Properties of concurrent pushes *)

-----------------------------------------------------------------------------
(* Properties of the hand-off on resolved waiters *)

\* C35: the hand-off discards the queued waiters whose future is already
\* done (timed out or cancelled) and removes no list element for them: the
\* list loses at most as many elements as waiters were pending, and when
\* every queued waiter is done, the push leaves the prior list with all the
\* pushed elements, empties the queue and sets no future.
C35_ResolvedDiscarded ==
    [][(IsPush(last') /\ ListOrAbsent(last'.key)) =>
          LET k == last'.key
              q == blocked_clients[k]
              pushed == PostPush(storage_dict[k], last')
          IN  /\ Len(storage_dict'[k].lst) >= Len(pushed) - Len(PendingWaiters(q, futures))
              /\ \A i \in 1..Len(blocked_clients'[k]) :
                     ~FutDone(futures, blocked_clients'[k][i].fut)
              /\ (q # <<>> /\ \A i \in 1..Len(q) : futures[q[i].fut].state = "cancelled") =>
                     /\ storage_dict'[k].lst = pushed
                     /\ blocked_clients'[k] = <<>>
                     /\ futures' = futures
                     /\ last'.out = <<>>]_vars

\* the first push found the queue holding only the waiter of a client that
\* had disconnected or timed out, and left its elements in the list
C35_Witness ==
    /\ IsPush(last)
    /\ last.items # <<>>
    /\ nextElem = 1 + Len(last.items)
    /\ storage_dict[last.key].lst = PostPush(Absent, last)
    /\ Len(futures) = 1
    /\ futures[1].state = "cancelled"
    /\ clients[futures[1].client].pc \in {"gone", "timedout"}
    /\ blocked_clients[last.key] = <<>>

\* C36: the registry holds only waiters of clients that are still in their
\* BLPOP call (blocked on the waiter's future, or handling its timeout): the
\* cancelled task of a blocked client has removed its waiter from the key's
\* queue before it unwinds.
C36_CancelDropsWaiter ==
    \A k \in Keys :
        \A i \in 1..Len(blocked_clients[k]) :
            LET f == blocked_clients[k][i].fut
                c == futures[f].client
            IN  /\ clients[c].pc \in {"blocked", "timedout"}
                /\ clients[c].fut = f

-----------------------------------------------------------------------------
(* Properties of BLPOP against pushes *)

\* C37: while a key's queue holds a waiter whose future is pending, the key
\* holds no list or an empty one: no interleaving of a BLPOP (probe, then
\* registration) with a push of another client leaves an element in the list
\* and the waiter blocked.
C37_NoWaiterWithElements ==
    \A k \in ListKeys :
        PendingWaiters(blocked_clients[k], futures) # <<>> =>
            \/ storage_dict[k].kind = "none"
            \/ storage_dict[k].kind = "list" /\ storage_dict[k].lst = <<>>

\* a client has registered its waiter on a list that pushes had filled and
\* pops emptied before
C37_Witness ==
    /\ last.op = "blpop_block"
    /\ PendingWaiters(blocked_clients["k1"], futures) # <<>>
    /\ storage_dict["k1"].kind = "list"
    /\ storage_dict["k1"].lst = <<>>
    /\ nextElem > 1

\* C38: a waiter that a push removes from the key's queue while its future
\* is pending has the future resolved by the same push, also by a push of
\* zero elements: no blocked client leaves the registry still waiting.
C38_RemovedIsCompleted ==
    [][IsPush(last') =>
          LET k == last'.key
              w == PendingWaiters(blocked_clients[k], futures)
          IN  \A i \in 1..Len(w) :
                  \/ \E j \in 1..Len(blocked_clients'[k]) : blocked_clients'[k][j].fut = w[i]
                  \/ futures'[w[i]].state # "pending"]_vars

-----------------------------------------------------------------------------
(* Properties of lists with a deadline *)

\* C40: RPUSH, LPUSH and LPOP on a key that holds a list leave the key's
\* expiry deadline as it is, whether or not the push hands elements to
\* blocked waiters.
C40_PushKeepsDeadline ==
    [][((IsPush(last') \/ last'.op = "lpop") /\ storage_dict[last'.key].kind = "list") =>
          /\ storage_dict'[last'.key].kind = "list"
          /\ storage_dict'[last'.key].exp = storage_dict[last'.key].exp]_vars

====
